---- MODULE Spec2Model ----
(***************************************************************************)
(* Hinotetsu: sharded in-memory key-value engine.                          *)
(*                                                                         *)
(* The module models the incremental-rehash engine (hinotetsu3.c): the     *)
(* per-shard bump arena, the slab free lists that own the value buffers,   *)
(* the open-addressing tables with tombstones, the incremental migration,  *)
(* and the set / get / delete / flush / stats operations on top of them.   *)
(* The stop-the-world engine (hinotetsu2.c) is modelled next to it.        *)
(*                                                                         *)
(* Build configuration.  Every tuning macro of hinotetsu3.h is guarded by  *)
(* #ifndef and meant to be overridden with -D.  The model is the build     *)
(*   -DHINOTETSU_SHARDS=1 -DHINOTETSU_INIT_CAP=2                           *)
(*   -DHINOTETSU_SLAB_MIN_SHIFT=17 -DHINOTETSU_SLAB_MAX_SHIFT=17           *)
(*   -DHINOTETSU_MIGRATE_BATCH=1                                           *)
(* opened with a pool of one MiB per shard plus room for MaxEntries        *)
(* entries.  All sizes and offsets are in bytes, as in the code: with      *)
(* 128 KiB blocks one slab page is the 1 MiB the pre-warm takes, so the    *)
(* free list holds eight blocks and the arena runs out after MaxEntries    *)
(* entries, which makes the out-of-memory paths reachable.                 *)
(***************************************************************************)
EXTENDS Integers, Sequences, FiniteSets, TLC

(* ------------------------------ bounds -------------------------------- *)

\* Number of 40-byte (Entry + key) allocations the arena has room for after
\* the pre-warm: fixes the pool size handed to hinotetsu_open.
MaxEntries == 4

\* The clock advances at most this many seconds past its first reading.
MaxTicks == 1

\* hits and misses are counted up to this value in the model.
MaxCounter == 1

\* Number of calls (and clock ticks) in a run of Spec.
MaxOps == 5

\* Number of calls in a run of SpecRehash.
MaxRehashOps == 7

\* Number of threads that call the locked API, and number of calls they
\* start in a run of SpecT.
NumThreads == 2

MaxThreadOps == 5

\* Number of calls (and clock ticks) in a run of SpecBoth.
MaxBothOps == 5

\* Number of calls (and clock ticks) in a run of SpecExpire.
MaxExpireOps == 6

\* Number of calls in a run of SpecAlloc.
MaxAllocOps == 4

(* ------------------------ program constants --------------------------- *)

HINOTETSU_SHARDS == 1

HINOTETSU_INIT_CAP == 2

HINOTETSU_SLAB_MIN_SHIFT == 17

HINOTETSU_SLAB_MAX_SHIFT == 17

HINOTETSU_SLAB_PAGE_SIZE == 65536

HINOTETSU_MIGRATE_BATCH == 1

LOAD_FACTOR_NUM == 7

LOAD_FACTOR_DEN == 10

NULL == 0

TOMBSTONE_PTR == 1

VALUE_CLASS_BUMP == 255

\* sizeof(Entry) on an LP64 build: two pointers, three uint32_t, two uint8_t,
\* padded to the pointer alignment.
EntrySize == 32

\* The per-shard minimum of the arena, 1u << 20.
MinShardPool == 1048576

HINOTETSU_OK == 0

HINOTETSU_ERR_NOTFOUND == 1

HINOTETSU_ERR_NOMEM == 2

HINOTETSU_ERR_IO == 3

HINOTETSU_ERR_TOOSMALL == 4

(* --------------------------- arithmetic ------------------------------- *)

RECURSIVE Pow2(_)
Pow2(n) == IF n = 0 THEN 1 ELSE 2 * Pow2(n - 1)

\* Bitwise exclusive or of two naturals below 2^bits.
RECURSIVE BitXor(_, _, _)
BitXor(a, b, bits) ==
  IF bits = 0 THEN 0
  ELSE (((a % 2) + (b % 2)) % 2) + 2 * BitXor(a \div 2, b \div 2, bits - 1)

\* (n + 7u) & ~7u
Round8(n) == ((n + 7) \div 8) * 8

(* uint32_t values that take part in wrapping arithmetic (the clock, the    *)
(* ttl and Entry.expire) are kept at their width as <<high, low>> halves of *)
(* 16 bits each.                                                            *)
U32(hi, lo) == <<hi, lo>>

U32Zero == <<0, 0>>

U32Add(a, b) ==
  LET lo == a[2] + b[2]
      hi == a[1] + b[1] + (lo \div 65536)
  IN  <<hi % 65536, lo % 65536>>

\* TRUE when a + b does not fit in 32 bits.
U32AddCarries(a, b) ==
  LET lo == a[2] + b[2]
      hi == a[1] + b[1] + (lo \div 65536)
  IN  hi >= 65536

U32Leq(a, b) == a[1] < b[1] \/ (a[1] = b[1] /\ a[2] <= b[2])

U32Lt(a, b) == a[1] < b[1] \/ (a[1] = b[1] /\ a[2] < b[2])

(* ------------------------------ hashing ------------------------------- *)

\* Low 16 bits of the FNV-1a offset basis 1469598103934665603.
FnvOffsetLow16 == 899

\* Low 16 bits of the FNV-1a prime 1099511628211.
FnvPrimeLow16 == 435

\* fnv1a64, computed on the low 16 bits of the 64-bit state.  Exclusive or
\* and multiplication modulo 2^64 act on the low 16 bits independently of
\* the higher ones, and only the bits below the table capacity are ever
\* used (shard_id_for, idx_for), so this is the hash as far as it is read.
RECURSIVE fnv1a64_from(_, _, _)
fnv1a64_from(h, key, i) ==
  IF i > Len(key) THEN h
  ELSE fnv1a64_from((BitXor(h, key[i], 16) * FnvPrimeLow16) % 65536, key, i + 1)

fnv1a64(key) == fnv1a64_from(FnvOffsetLow16, key, 1)

\* h & (HINOTETSU_SHARDS - 1u)
shard_id_for(h) == h % HINOTETSU_SHARDS

\* h & (cap - 1u), cap a power of two
idx_for(h, cap) == h % cap

(* ---------------------------- size classes ---------------------------- *)

\* Number of bits of x: the position of its highest set bit.
RECURSIVE BitLen(_)
BitLen(x) == IF x = 0 THEN 0 ELSE 1 + BitLen(x \div 2)

(* A size_t is four 16-bit limbs, the most significant first; a uint32_t  *)
(* is two, as U32.                                                        *)

\* The size_t of a number below 2^31.
SizeT(n) == <<0, 0, n \div 65536, n % 65536>>

SizeZero == <<0, 0, 0, 0>>

\* (uint32_t)n
U32OfSize(n) == <<n[3], n[4]>>

\* x-- on a uint32_t
U32Dec(x) == IF x[2] > 0 THEN <<x[1], x[2] - 1>> ELSE <<(x[1] + 65535) % 65536, 65535>>

\* Number of bits of a uint32_t.
U32BitLen(x) == IF x[1] # 0 THEN 16 + BitLen(x[1]) ELSE BitLen(x[2])

\* 2^k in a uint32_t: 0 for k = 32.
U32Pow2(k) ==
  IF k < 16 THEN <<0, Pow2(k)>> ELSE IF k < 32 THEN <<Pow2(k - 16), 0>> ELSE U32Zero

\* ceil_pow2_u32: x - 1 with every bit below its highest set bit turned on,
\* plus one in 32 bits.
ceil_pow2_u32(x) ==
  IF U32Leq(x, <<0, 1>>) THEN <<0, 1>> ELSE U32Pow2(U32BitLen(U32Dec(x)))

\* The loop  while ((1u << shift) < cap) shift++;  cap is at most 2^31.
RECURSIVE ShiftFor(_, _)
ShiftFor(cap, shift) ==
  IF U32Lt(U32Pow2(shift), cap) THEN ShiftFor(cap, shift + 1) ELSE shift

\* class_for_size with the values of its locals min_s and max_s.
class_for_size_with(n, min_s, max_s) ==
  LET need  == U32OfSize(IF n = SizeZero THEN SizeT(1) ELSE n)
      cap   == ceil_pow2_u32(need)
      shift == ShiftFor(cap, 0)
      sh2   == IF shift < min_s THEN min_s ELSE shift
  IN  IF sh2 > max_s THEN VALUE_CLASS_BUMP ELSE sh2

\* class_for_size(n), n a size_t
class_for_size(n) ==
  class_for_size_with(n, HINOTETSU_SLAB_MIN_SHIFT, HINOTETSU_SLAB_MAX_SHIFT)

class_size(shift) == Pow2(shift)

SlabClasses == HINOTETSU_SLAB_MIN_SHIFT .. HINOTETSU_SLAB_MAX_SHIFT

(* ------------------------------ values -------------------------------- *)

(* A value is <<length, byte>>: `length' bytes, all equal to `byte'.  The   *)
(* empty value is <<0, 0>>.  A buffer holds either the bytes last copied    *)
(* into it, <<"data", length, byte>>, or, while it is on a free list, the   *)
(* SlabNode whose next pointer overlays its first eight bytes,              *)
(* <<"node", next>>.                                                        *)
EmptyValue == <<0, 0>>

\* The byte that stands for memory that does not hold the bytes asked for
\* (a free-list pointer, or bytes past the end of a shorter value).
GarbageByte == 0 - 1

\* memcpy(dst, e->value, e->vlen): the vlen bytes found at p.
ReadValue(mem, p, vlen) ==
  IF vlen = 0 THEN EmptyValue
  ELSE IF p \in DOMAIN mem /\ mem[p][1] = "data" /\ mem[p][2] >= vlen
       THEN <<vlen, mem[p][3]>>
       ELSE <<vlen, GarbageByte>>

\* memcpy(v, value, vlen): a copy of zero bytes leaves the buffer as it is.
WriteValue(mem, p, val) ==
  IF val[1] = 0 THEN mem ELSE (p :> <<"data", val[1], val[2]>>) @@ mem

\* A pointer read from bytes that are not a SlabNode.
WILD_PTR == 0 - 2

\* n->next for a block p.
NodeNext(mem, p) ==
  IF p \in DOMAIN mem /\ mem[p][1] = "node" THEN mem[p][2] ELSE WILD_PTR

(* ------------------------------- arena -------------------------------- *)

\* The address malloc returned for the arena of shard i.
PoolBase(i) == (i + 1) * 4 * MinShardPool

\* pool_size_bytes handed to hinotetsu_open.
PoolSizeBytes == HINOTETSU_SHARDS * (MinShardPool + MaxEntries * (EntrySize + 8))

pool_alloc(s, n) ==
  LET r == Round8(n)
  IN  IF s.pool_pos + r > s.pool_size
      THEN [s |-> s, p |-> NULL]
      ELSE [s |-> [s EXCEPT !.pool_pos = @ + r], p |-> s.pool + s.pool_pos]

(* ------------------------------- slab --------------------------------- *)

slab_push(s, shift, p) ==
  [s EXCEPT !.mem = (p :> <<"node", s.freelist[shift]>>) @@ @,
            !.freelist[shift] = p]

\* What the loop  for (i = 0; i < blocks; i++) slab_push(s, shift, mem + i * bsz)
\* leaves when it is run from i on: the block i is linked to the old head of
\* the free list, every later block to the block before it, and the last
\* block is the new head.
slab_push_blocks(s, shift, mem0, bsz, i, blocks) ==
  IF i >= blocks THEN s
  ELSE [s EXCEPT
          !.mem = [p \in { mem0 + j * bsz : j \in i .. blocks - 1 } |->
                     <<"node", IF p = mem0 + i * bsz THEN s.freelist[shift] ELSE p - bsz>>]
                  @@ s.mem,
          !.freelist[shift] = mem0 + (blocks - 1) * bsz]

slab_refill(s, shift) ==
  LET bsz  == class_size(shift)
      pg0  == HINOTETSU_SLAB_PAGE_SIZE
      page == Round8(IF pg0 < bsz * 8 THEN bsz * 8 ELSE pg0)
      a    == pool_alloc(s, page)
  IN  IF a.p = NULL THEN s
      ELSE slab_push_blocks(a.s, shift, a.p, bsz, 0, page \div bsz)

RECURSIVE slab_prewarm_from(_, _, _)
slab_prewarm_from(s, shift, i) ==
  IF shift > s.max_s THEN s
  ELSE IF i >= 4 THEN slab_prewarm_from(s, shift + 1, 0)
  ELSE slab_prewarm_from(slab_refill(s, shift), shift, i + 1)

slab_prewarm(s) == slab_prewarm_from(s, s.min_s, 0)

\* The end of value_alloc, after the refill: the head of the free list is
\* popped.  A head that is not a block of the arena is dereferenced all the
\* same: undefined behaviour, recorded in s.fault.
slab_pop(s, shift) ==
  LET head == s.freelist[shift]
  IN  IF head = NULL THEN [s |-> s, p |-> NULL, class |-> shift]
      ELSE IF head = WILD_PTR
           THEN [s |-> [s EXCEPT !.fault = "wild"], p |-> head, class |-> shift]
           ELSE [s |-> [s EXCEPT !.freelist[shift] = NodeNext(s.mem, head)],
                 p |-> head, class |-> shift]

\* value_alloc once the class is known.
value_alloc_class(s, n, shift) ==
  IF shift = VALUE_CLASS_BUMP
  THEN LET a == pool_alloc(s, n) IN [s |-> a.s, p |-> a.p, class |-> shift]
  ELSE slab_pop(IF s.freelist[shift] = NULL THEN slab_refill(s, shift) ELSE s, shift)

\* value_alloc: [s, p, class].  s.min_s and s.max_s are
\* HINOTETSU_SLAB_MIN_SHIFT and HINOTETSU_SLAB_MAX_SHIFT of the build.
value_alloc(s, n) ==
  value_alloc_class(s, n, class_for_size_with(SizeT(n), s.min_s, s.max_s))

value_free(s, p, vclass) ==
  IF p = NULL THEN s
  ELSE IF vclass = VALUE_CLASS_BUMP THEN s
  ELSE slab_push(s, vclass, p)

(* ------------------------------ tables -------------------------------- *)

(* A table of capacity cap is a sequence of cap slots; slot idx of the code *)
(* is element idx + 1.  A slot holds NULL, TOMBSTONE_PTR or the address of  *)
(* an Entry.  NoTable is the NULL table pointer.  Entry structs live in     *)
(* s.ent, keyed by their address in the arena.                              *)
NoTable == << >>

EmptyTable(cap) == [i \in 1..cap |-> NULL]

Slot(tab, idx) == tab[idx + 1]

SetSlot(tab, idx, e) == [tab EXCEPT ![idx + 1] = e]

\* is_expired with the comparison of hinotetsu.c (now > expire): an entry is
\* still live in the second of its deadline.
is_expired_strict(e, now) == e.expire # U32Zero /\ U32Lt(e.expire, now)

is_expired(e, now) == e.expire # U32Zero /\ U32Leq(e.expire, now)

key_eq(ent, e, key) ==
  /\ e # NULL
  /\ e # TOMBSTONE_PTR
  /\ ent[e].klen = Len(key)
  /\ ent[e].key = key

\* The value stored in Entry.expire by a set with this ttl at this time.
ExpireFor(ttl, now) == IF ttl = U32Zero THEN U32Zero ELSE U32Add(now, ttl)

\* The end of entry_create_in_pool, v being what value_alloc returned: the
\* copy of the value and the fields of the Entry at e.
entry_fill(v, e, key, val, ttl, now) ==
  IF v.p = NULL THEN [s |-> v.s, e |-> NULL]
  ELSE [s |-> [v.s EXCEPT
                 !.mem = WriteValue(@, v.p, val),
                 !.ent = (e :> [key     |-> key,
                                klen    |-> Len(key),
                                value   |-> v.p,
                                vlen    |-> val[1],
                                expire  |-> ExpireFor(ttl, now),
                                deleted |-> 0,
                                vclass  |-> v.class]) @@ @],
        e |-> e]

\* entry_create_in_pool: [s, e]; e = NULL when any of the three allocations
\* fails (the earlier ones stay taken).
entry_create_in_pool(s, key, val, ttl, now) ==
  LET a == pool_alloc(s, EntrySize)
  IN  IF a.p = NULL THEN [s |-> a.s, e |-> NULL]
      ELSE LET k == pool_alloc(a.s, Len(key))
           IN  IF k.p = NULL THEN [s |-> k.s, e |-> NULL]
               ELSE entry_fill(value_alloc(k.s, val[1]), a.p, key, val, ttl, now)

\* The probe of table_insert: first slot from idx on that is NULL or a
\* tombstone; cap when there is none (the loop of the code does not end).
RECURSIVE table_insert_probe(_, _, _, _)
table_insert_probe(tab, cap, idx, steps) ==
  IF steps >= cap THEN cap
  ELSE IF Slot(tab, idx) = NULL \/ Slot(tab, idx) = TOMBSTONE_PTR THEN idx
  ELSE table_insert_probe(tab, cap, (idx + 1) % cap, steps + 1)

\* table_insert: [tab, used, hang]
table_insert(tab, cap, ent, e, used) ==
  LET h   == fnv1a64(ent[e].key)
      idx == table_insert_probe(tab, cap, idx_for(h, cap), 0)
  IN  IF idx = cap THEN [tab |-> tab, used |-> used, hang |-> TRUE]
      ELSE [tab  |-> SetSlot(tab, idx, e),
            used |-> IF Slot(tab, idx) = NULL THEN used + 1 ELSE used,
            hang |-> FALSE]

\* shard_start_resize; nt_ok: the table allocation (mmap / malloc) succeeds.
shard_start_resize_with(s, nt_ok) ==
  IF s.new_tab # NoTable \/ ~nt_ok THEN s
  ELSE LET c2      == s.cap * 2
           new_cap == IF c2 < HINOTETSU_INIT_CAP THEN HINOTETSU_INIT_CAP ELSE c2
       IN  [s EXCEPT !.new_tab = EmptyTable(new_cap),
                     !.new_cap = new_cap,
                     !.new_used = 0,
                     !.migrate_pos = 0]

\* shard_start_resize when the table allocation succeeds.
shard_start_resize(s) == shard_start_resize_with(s, TRUE)

\* The recount of live entries after the promotion.
LiveCount(tab, ent) ==
  Cardinality({i \in 1..Len(tab) :
                 tab[i] # NULL /\ tab[i] # TOMBSTONE_PTR /\ ent[tab[i]].deleted = 0})

\* The while loop of shard_migrate_batch with the cursor advanced once more
\* after each entry it moves.
RECURSIVE migrate_loop_skip(_, _, _)
migrate_loop_skip(s, now, migrated) ==
  IF ~(s.migrate_pos < s.cap /\ migrated < HINOTETSU_MIGRATE_BATCH) THEN s
  ELSE LET e  == Slot(s.tab, s.migrate_pos)
           s1 == [s EXCEPT !.migrate_pos = @ + 1]
       IN  IF e = NULL \/ e = TOMBSTONE_PTR THEN migrate_loop_skip(s1, now, migrated)
           ELSE IF s.ent[e].deleted # 0 \/ is_expired(s.ent[e], now)
                THEN migrate_loop_skip(s1, now, migrated)
                ELSE LET t == table_insert(s1.new_tab, s1.new_cap, s1.ent, e, s1.new_used)
                     IN  IF t.hang THEN [s1 EXCEPT !.fault = "hang"]
                         ELSE migrate_loop_skip([s1 EXCEPT !.new_tab = t.tab,
                                                           !.new_used = t.used,
                                                           !.migrate_pos = @ + 1],
                                                now, migrated + 1)

\* The while loop of shard_migrate_batch.
RECURSIVE migrate_loop(_, _, _)
migrate_loop(s, now, migrated) ==
  IF ~(s.migrate_pos < s.cap /\ migrated < HINOTETSU_MIGRATE_BATCH) THEN s
  ELSE LET e  == Slot(s.tab, s.migrate_pos)
           s1 == [s EXCEPT !.migrate_pos = @ + 1]
       IN  IF e = NULL \/ e = TOMBSTONE_PTR THEN migrate_loop(s1, now, migrated)
           ELSE IF s.ent[e].deleted # 0 \/ is_expired(s.ent[e], now)
                THEN migrate_loop(s1, now, migrated)
                ELSE LET t == table_insert(s1.new_tab, s1.new_cap, s1.ent, e, s1.new_used)
                     IN  IF t.hang THEN [s1 EXCEPT !.fault = "hang"]
                         ELSE migrate_loop([s1 EXCEPT !.new_tab = t.tab,
                                                      !.new_used = t.used],
                                           now, migrated + 1)

\* The promotion with the test  migrate_pos > cap.
migrate_promote_late(s) ==
  IF s.migrate_pos > s.cap /\ s.fault = "none"
  THEN [s EXCEPT !.tab = s.new_tab,
                 !.cap = s.new_cap,
                 !.used = s.new_used,
                 !.new_tab = NoTable,
                 !.new_cap = 0,
                 !.new_used = 0,
                 !.migrate_pos = 0,
                 !.count = LiveCount(s.new_tab, s.ent)]
  ELSE s

\* The promotion of new_tab once the cursor has passed the old table.
migrate_promote(s) ==
  IF s.migrate_pos >= s.cap /\ s.fault = "none"
  THEN [s EXCEPT !.tab = s.new_tab,
                 !.cap = s.new_cap,
                 !.used = s.new_used,
                 !.new_tab = NoTable,
                 !.new_cap = 0,
                 !.new_used = 0,
                 !.migrate_pos = 0,
                 !.count = LiveCount(s.new_tab, s.ent)]
  ELSE s

shard_migrate_batch(s, now) ==
  IF s.new_tab = NoTable THEN s
  ELSE migrate_promote(migrate_loop(s, now, 0))

\* shard_maybe_grow with the test  used > cap * 7 / 10.
shard_maybe_grow_late(s, now) ==
  IF s.new_tab # NoTable THEN shard_migrate_batch(s, now)
  ELSE IF s.used > (s.cap * LOAD_FACTOR_NUM) \div LOAD_FACTOR_DEN
       THEN LET s1 == shard_start_resize(s)
            IN  IF s1.new_tab # NoTable THEN shard_migrate_batch(s1, now) ELSE s1
       ELSE s

shard_maybe_grow_with(s, now, nt_ok) ==
  IF s.new_tab # NoTable THEN shard_migrate_batch(s, now)
  ELSE IF s.used + 1 > (s.cap * LOAD_FACTOR_NUM) \div LOAD_FACTOR_DEN
       THEN LET s1 == shard_start_resize_with(s, nt_ok)
            IN  IF s1.new_tab # NoTable THEN shard_migrate_batch(s1, now) ELSE s1
       ELSE s

\* shard_maybe_grow when the table allocation succeeds.
shard_maybe_grow(s, now) == shard_maybe_grow_with(s, now, TRUE)

\* find_insert_slot: [idx, found, hang].  idx = cap and hang when the probe
\* has gone round the table without meeting NULL or the key.
RECURSIVE find_insert_probe(_, _, _, _, _, _, _)
find_insert_probe(tab, cap, ent, key, idx, first_tomb, steps) ==
  IF steps >= cap THEN [idx |-> cap, found |-> 0, hang |-> TRUE]
  ELSE LET cur == Slot(tab, idx)
       IN  IF cur = NULL
           THEN [idx |-> IF first_tomb # cap THEN first_tomb ELSE idx,
                 found |-> 0, hang |-> FALSE]
           ELSE IF cur = TOMBSTONE_PTR
                THEN find_insert_probe(tab, cap, ent, key, (idx + 1) % cap,
                                       IF first_tomb = cap THEN idx ELSE first_tomb,
                                       steps + 1)
                ELSE IF key_eq(ent, cur, key)
                     THEN [idx |-> idx, found |-> 1, hang |-> FALSE]
                     ELSE find_insert_probe(tab, cap, ent, key, (idx + 1) % cap,
                                            first_tomb, steps + 1)

find_insert_slot(tab, cap, ent, key, h) ==
  find_insert_probe(tab, cap, ent, key, idx_for(h, cap), cap, 0)

(* --------------------- engine operations (no lock) -------------------- *)

\* The overwrite branch of set_internal from the memcpy of the value into
\* the buffer a.p that value_alloc returned, up to and with
\* value_free(s, existing->value, existing->vclass).
set_freed(a, existing, val) ==
  value_free([a.s EXCEPT !.mem = WriteValue(@, a.p, val)],
             a.s.ent[existing].value, a.s.ent[existing].vclass)

\* The overwrite branch of set_internal after its value_alloc, which
\* returned a: the old buffer is freed and the fields of `existing' are set.
set_replace(a, existing, val, ttl, now) ==
  IF a.p = NULL THEN [s |-> a.s, ret |-> HINOTETSU_ERR_NOMEM]
  ELSE [s |-> [set_freed(a, existing, val)
                 EXCEPT !.ent[existing].value = a.p,
                        !.ent[existing].vlen = val[1],
                        !.ent[existing].vclass = a.class,
                        !.ent[existing].deleted = 0,
                        !.ent[existing].expire = ExpireFor(ttl, now)],
        ret |-> HINOTETSU_OK]

\* The overwrite branch of set_internal on the entry `existing'.
set_overwrite(s, existing, val, ttl, now) ==
  set_replace(value_alloc(s, val[1]), existing, val, ttl, now)

\* The insert branch of set_internal after entry_create_in_pool, which left
\* the shard c.s and returned c.e: the entry goes into the target table.
set_place(c, h, key) ==
  IF c.e = NULL THEN [s |-> c.s, ret |-> HINOTETSU_ERR_NOMEM]
  ELSE LET s1     == c.s
           e      == c.e
           in_new == s1.new_tab # NoTable
           ttab   == IF in_new THEN s1.new_tab ELSE s1.tab
           tcap   == IF in_new THEN s1.new_cap ELSE s1.cap
           f      == find_insert_slot(ttab, tcap, s1.ent, key, h)
       IN  IF f.hang THEN [s |-> [s1 EXCEPT !.fault = "hang"], ret |-> HINOTETSU_ERR_IO]
           ELSE IF Slot(ttab, f.idx) = NULL
                THEN [s |-> IF in_new
                            THEN [s1 EXCEPT !.new_tab = SetSlot(@, f.idx, e),
                                            !.new_used = @ + 1,
                                            !.count = @ + 1]
                            ELSE [s1 EXCEPT !.tab = SetSlot(@, f.idx, e),
                                            !.used = @ + 1,
                                            !.count = @ + 1],
                      ret |-> HINOTETSU_OK]
                ELSE IF Slot(ttab, f.idx) = TOMBSTONE_PTR
                     THEN [s |-> IF in_new
                                 THEN [s1 EXCEPT !.new_tab = SetSlot(@, f.idx, e),
                                                 !.count = @ + 1]
                                 ELSE [s1 EXCEPT !.tab = SetSlot(@, f.idx, e),
                                                 !.count = @ + 1],
                           ret |-> HINOTETSU_OK]
                     ELSE [s |-> s1, ret |-> HINOTETSU_ERR_IO]

\* The insert branch of set_internal.
set_insert(s, h, key, val, ttl, now) ==
  set_place(entry_create_in_pool(s, key, val, ttl, now), h, key)

\* set_internal looking for the key in new_tab only.
set_lookup_new_only(s1, h, key, val, ttl, now) ==
  LET fn == IF s1.new_tab # NoTable
            THEN find_insert_slot(s1.new_tab, s1.new_cap, s1.ent, key, h)
            ELSE find_insert_slot(s1.tab, s1.cap, s1.ent, key, h)
      existing == IF fn.found = 1
                  THEN Slot(IF s1.new_tab # NoTable THEN s1.new_tab ELSE s1.tab, fn.idx)
                  ELSE NULL
  IN  IF s1.fault # "none" THEN [s |-> s1, ret |-> HINOTETSU_ERR_IO]
      ELSE IF fn.hang
           THEN [s |-> [s1 EXCEPT !.fault = "hang"], ret |-> HINOTETSU_ERR_IO]
           ELSE IF existing # NULL /\ existing # TOMBSTONE_PTR
                THEN set_overwrite(s1, existing, val, ttl, now)
                ELSE set_insert(s1, h, key, val, ttl, now)

\* set_internal after its call of shard_maybe_grow, which left the shard s1.
set_lookup(s1, h, key, val, ttl, now) ==
  LET fn == IF s1.new_tab # NoTable
            THEN find_insert_slot(s1.new_tab, s1.new_cap, s1.ent, key, h)
            ELSE [idx |-> 0, found |-> 0, hang |-> FALSE]
      fo == find_insert_slot(s1.tab, s1.cap, s1.ent, key, h)
      existing == IF fn.found = 1 THEN Slot(s1.new_tab, fn.idx)
                  ELSE IF fo.found = 1 THEN Slot(s1.tab, fo.idx)
                  ELSE NULL
  IN  IF s1.fault # "none" THEN [s |-> s1, ret |-> HINOTETSU_ERR_IO]
      ELSE IF fn.hang \/ fo.hang
           THEN [s |-> [s1 EXCEPT !.fault = "hang"], ret |-> HINOTETSU_ERR_IO]
           ELSE IF existing # NULL /\ existing # TOMBSTONE_PTR
                THEN set_overwrite(s1, existing, val, ttl, now)
                ELSE set_insert(s1, h, key, val, ttl, now)

\* set_internal: [s, ret]
set_internal(s, h, key, val, ttl, now) ==
  set_lookup(shard_maybe_grow(s, now), h, key, val, ttl, now)

\* set_internal with the outcome nt_ok of the table allocation of its
\* shard_start_resize.
set_internal_with(s, h, key, val, ttl, now, nt_ok) ==
  set_lookup(shard_maybe_grow_with(s, now, nt_ok), h, key, val, ttl, now)

\* The lookup loops shared by get_into_internal and delete_internal: probe
\* from idx until NULL or the key.  [e, idx, hang]: e is the entry when the
\* key is met and is neither deleted nor expired, NULL otherwise.  The loop
\* over new_tab is bounded by its capacity, the loop over tab is not.
RECURSIVE lookup_probe(_, _, _, _, _, _, _, _)
lookup_probe(tab, cap, ent, key, now, idx, steps, bounded) ==
  IF steps >= cap THEN [e |-> NULL, idx |-> idx, hang |-> ~bounded]
  ELSE LET cur == Slot(tab, idx)
       IN  IF cur = NULL THEN [e |-> NULL, idx |-> idx, hang |-> FALSE]
           ELSE IF cur # TOMBSTONE_PTR /\ key_eq(ent, cur, key)
                THEN [e    |-> IF ent[cur].deleted = 0 /\ ~is_expired(ent[cur], now)
                               THEN cur ELSE NULL,
                      idx  |-> idx,
                      hang |-> FALSE]
                ELSE lookup_probe(tab, cap, ent, key, now, (idx + 1) % cap, steps + 1, bounded)

\* The two searches: new_tab first, then tab.  [e, idx, in_new, hang]
lookup_both(s, h, key, now) ==
  LET ln == IF s.new_tab # NoTable
            THEN lookup_probe(s.new_tab, s.new_cap, s.ent, key, now,
                              idx_for(h, s.new_cap), 0, TRUE)
            ELSE [e |-> NULL, idx |-> 0, hang |-> FALSE]
  IN  IF ln.e # NULL THEN [e |-> ln.e, idx |-> ln.idx, in_new |-> TRUE, hang |-> FALSE]
      ELSE LET lo == lookup_probe(s.tab, s.cap, s.ent, key, now,
                                  idx_for(h, s.cap), 0, FALSE)
           IN  [e |-> lo.e, idx |-> lo.idx, in_new |-> FALSE, hang |-> lo.hang]

\* get_into_internal after its migration batch, which left the shard s1.
get_lookup(s1, h, key, dst_cap, now) ==
  LET l  == lookup_both(s1, h, key, now)
  IN  IF s1.fault # "none" \/ l.hang
      THEN [s |-> [s1 EXCEPT !.fault = IF @ = "none" THEN "hang" ELSE @],
            ret |-> HINOTETSU_ERR_IO, out |-> EmptyValue, out_vlen |-> 0]
      ELSE IF l.e = NULL
           THEN [s |-> [s1 EXCEPT !.misses = @ + 1],
                 ret |-> HINOTETSU_ERR_NOTFOUND, out |-> EmptyValue, out_vlen |-> 0]
           ELSE LET e == s1.ent[l.e]
                    s2 == [s1 EXCEPT !.hits = @ + 1]
                IN  IF e.vlen > dst_cap
                    THEN [s |-> s2, ret |-> HINOTETSU_ERR_TOOSMALL,
                          out |-> EmptyValue, out_vlen |-> e.vlen]
                    ELSE [s |-> s2, ret |-> HINOTETSU_OK,
                          out |-> ReadValue(s2.mem, e.value, e.vlen), out_vlen |-> e.vlen]

\* get_into_internal: [s, ret, out, out_vlen]
get_into_internal(s, h, key, dst_cap, now) ==
  get_lookup(IF s.new_tab # NoTable THEN shard_migrate_batch(s, now) ELSE s,
             h, key, dst_cap, now)

\* delete_internal after its migration batch, emptying the slot instead of
\* leaving a tombstone: the slot no longer counts as occupied.
delete_lookup_empties(s1, h, key, now) ==
  LET l  == lookup_both(s1, h, key, now)
  IN  IF s1.fault # "none" \/ l.hang
      THEN [s |-> [s1 EXCEPT !.fault = IF @ = "none" THEN "hang" ELSE @],
            ret |-> HINOTETSU_ERR_IO]
      ELSE IF l.e = NULL THEN [s |-> s1, ret |-> HINOTETSU_ERR_NOTFOUND]
      ELSE LET s2 == value_free(s1, s1.ent[l.e].value, s1.ent[l.e].vclass)
               s3 == [s2 EXCEPT !.ent[l.e].deleted = 1,
                                !.count = IF @ # 0 THEN @ - 1 ELSE @]
           IN  [s |-> IF l.in_new
                      THEN [s3 EXCEPT !.new_tab = SetSlot(@, l.idx, TOMBSTONE_PTR),
                                      !.new_used = @ - 1]
                      ELSE [s3 EXCEPT !.tab = SetSlot(@, l.idx, TOMBSTONE_PTR),
                                      !.used = @ - 1],
                ret |-> HINOTETSU_OK]

\* delete_internal after its migration batch, which left the shard s1.
delete_lookup(s1, h, key, now) ==
  LET l  == lookup_both(s1, h, key, now)
  IN  IF s1.fault # "none" \/ l.hang
      THEN [s |-> [s1 EXCEPT !.fault = IF @ = "none" THEN "hang" ELSE @],
            ret |-> HINOTETSU_ERR_IO]
      ELSE IF l.e = NULL THEN [s |-> s1, ret |-> HINOTETSU_ERR_NOTFOUND]
      ELSE LET s2 == value_free(s1, s1.ent[l.e].value, s1.ent[l.e].vclass)
               s3 == [s2 EXCEPT !.ent[l.e].deleted = 1,
                                !.count = IF @ # 0 THEN @ - 1 ELSE @]
           IN  [s |-> IF l.in_new
                      THEN [s3 EXCEPT !.new_tab = SetSlot(@, l.idx, TOMBSTONE_PTR)]
                      ELSE [s3 EXCEPT !.tab = SetSlot(@, l.idx, TOMBSTONE_PTR)],
                ret |-> HINOTETSU_OK]

\* delete_internal: [s, ret]
delete_internal(s, h, key, now) ==
  delete_lookup(IF s.new_tab # NoTable THEN shard_migrate_batch(s, now) ELSE s,
                h, key, now)

(* ------------- the stop-the-world engine (hinotetsu2.c) --------------- *)

(* hinotetsu2.c has the arena, the slab and entry_create_in_pool of         *)
(* hinotetsu3.c word for word, a single table per shard, and no pre-warm.   *)
(* Its shards are the same records with new_tab left at NoTable.  The       *)
(* names of its functions that differ carry the prefix v2_.                 *)

\* shard_find_slot of hinotetsu2.c: [idx, found, hang]
RECURSIVE v2_find_probe(_, _, _, _, _, _, _)
v2_find_probe(tab, cap, ent, key, idx, first_tomb, steps) ==
  IF steps >= cap THEN [idx |-> cap, found |-> 0, hang |-> TRUE]
  ELSE LET cur == Slot(tab, idx)
       IN  IF cur = NULL
           THEN [idx |-> IF first_tomb # cap THEN first_tomb ELSE idx,
                 found |-> 0, hang |-> FALSE]
           ELSE IF cur = TOMBSTONE_PTR
                THEN v2_find_probe(tab, cap, ent, key, (idx + 1) % cap,
                                   IF first_tomb = cap THEN idx ELSE first_tomb,
                                   steps + 1)
                ELSE IF key_eq(ent, cur, key)
                     THEN [idx |-> idx, found |-> 1, hang |-> FALSE]
                     ELSE v2_find_probe(tab, cap, ent, key, (idx + 1) % cap,
                                        first_tomb, steps + 1)

v2_shard_find_slot(s, key, h) ==
  v2_find_probe(s.tab, s.cap, s.ent, key, idx_for(h, s.cap), s.cap, 0)

\* The for loop of shard_resize over the old table, from slot i on.
RECURSIVE v2_resize_loop(_, _, _, _, _)
v2_resize_loop(s, old, old_cap, now, i) ==
  IF i >= old_cap THEN s
  ELSE LET e == Slot(old, i)
       IN  IF e = NULL \/ e = TOMBSTONE_PTR
           THEN v2_resize_loop(s, old, old_cap, now, i + 1)
           ELSE IF s.ent[e].deleted # 0 \/ is_expired(s.ent[e], now)
                THEN v2_resize_loop(s, old, old_cap, now, i + 1)
                ELSE LET t == table_insert(s.tab, s.cap, s.ent, e, s.used)
                     IN  v2_resize_loop([s EXCEPT !.tab = t.tab,
                                                  !.used = t.used,
                                                  !.count = @ + 1],
                                        old, old_cap, now, i + 1)

\* shard_resize; calloc succeeds.
v2_shard_resize(s, new_cap, now) ==
  v2_resize_loop([s EXCEPT !.tab = EmptyTable(new_cap),
                           !.cap = new_cap,
                           !.used = 0,
                           !.count = 0],
                 s.tab, s.cap, now, 0)

v2_shard_maybe_grow(s, now) ==
  IF s.used + 1 <= (s.cap * LOAD_FACTOR_NUM) \div LOAD_FACTOR_DEN THEN s
  ELSE LET c2      == IF s.cap # 0 THEN s.cap * 2 ELSE HINOTETSU_INIT_CAP
           new_cap == IF c2 < HINOTETSU_INIT_CAP THEN HINOTETSU_INIT_CAP ELSE c2
       IN  v2_shard_resize(s, new_cap, now)

\* The end of set_internal of hinotetsu2.c: the entry c.e that
\* entry_create_in_pool returned goes into slot idx.
v2_set_place(c, idx) ==
  IF c.e = NULL THEN [s |-> c.s, ret |-> HINOTETSU_ERR_NOMEM]
  ELSE IF Slot(c.s.tab, idx) = NULL
       THEN [s |-> [c.s EXCEPT !.tab = SetSlot(@, idx, c.e),
                               !.used = @ + 1,
                               !.count = @ + 1],
             ret |-> HINOTETSU_OK]
       ELSE IF Slot(c.s.tab, idx) = TOMBSTONE_PTR
            THEN [s |-> [c.s EXCEPT !.tab = SetSlot(@, idx, c.e),
                                    !.count = @ + 1],
                  ret |-> HINOTETSU_OK]
            ELSE [s |-> c.s, ret |-> HINOTETSU_ERR_IO]

\* set_internal of hinotetsu2.c after shard_maybe_grow, which left the
\* shard s1.
v2_set_lookup(s1, h, key, val, ttl, now) ==
  LET f == v2_shard_find_slot(s1, key, h)
  IN  IF f.hang THEN [s |-> [s1 EXCEPT !.fault = "hang"], ret |-> HINOTETSU_ERR_IO]
      ELSE IF f.found = 1
           THEN set_overwrite(s1, Slot(s1.tab, f.idx), val, ttl, now)
           ELSE v2_set_place(entry_create_in_pool(s1, key, val, ttl, now), f.idx)

\* set_internal of hinotetsu2.c: [s, ret]
v2_set_internal(s, h, key, val, ttl, now) ==
  v2_set_lookup(v2_shard_maybe_grow(s, now), h, key, val, ttl, now)

\* get_into_internal of hinotetsu2.c: [s, ret, out, out_vlen]
v2_get_into_internal(s, h, key, dst_cap, now) ==
  LET f == v2_shard_find_slot(s, key, h)
  IN  IF f.hang
      THEN [s |-> [s EXCEPT !.fault = "hang"],
            ret |-> HINOTETSU_ERR_IO, out |-> EmptyValue, out_vlen |-> 0]
      ELSE IF f.found = 0
              \/ s.ent[Slot(s.tab, f.idx)].deleted # 0
              \/ is_expired(s.ent[Slot(s.tab, f.idx)], now)
           THEN [s |-> [s EXCEPT !.misses = @ + 1],
                 ret |-> HINOTETSU_ERR_NOTFOUND, out |-> EmptyValue, out_vlen |-> 0]
           ELSE LET e  == s.ent[Slot(s.tab, f.idx)]
                    s2 == [s EXCEPT !.hits = @ + 1]
                IN  IF e.vlen > dst_cap
                    THEN [s |-> s2, ret |-> HINOTETSU_ERR_TOOSMALL,
                          out |-> EmptyValue, out_vlen |-> e.vlen]
                    ELSE [s |-> s2, ret |-> HINOTETSU_OK,
                          out |-> ReadValue(s2.mem, e.value, e.vlen), out_vlen |-> e.vlen]

\* delete_internal of hinotetsu2.c: [s, ret].  It does not read the clock.
v2_delete_internal(s, h, key) ==
  LET f == v2_shard_find_slot(s, key, h)
  IN  IF f.hang THEN [s |-> [s EXCEPT !.fault = "hang"], ret |-> HINOTETSU_ERR_IO]
      ELSE IF f.found = 0 THEN [s |-> s, ret |-> HINOTETSU_ERR_NOTFOUND]
      ELSE LET e  == Slot(s.tab, f.idx)
               s2 == value_free(s, s.ent[e].value, s.ent[e].vclass)
           IN  [s |-> [s2 EXCEPT !.ent[e].deleted = 1,
                                 !.tab = SetSlot(@, f.idx, TOMBSTONE_PTR),
                                 !.count = IF @ # 0 THEN @ - 1 ELSE @],
                ret |-> HINOTETSU_OK]

(* ------------------------ open, flush, stats -------------------------- *)

NoFunction == [x \in {} |-> 0]

\* One iteration of the loop of hinotetsu_open(pool_size_bytes) in a build
\* with nshards shards, tables of init_cap slots and the slab classes min_s
\* to max_s.
shard_open_with(i, pool_size_bytes, nshards, init_cap, min_s, max_s) ==
  LET per0 == pool_size_bytes \div nshards
      per  == IF per0 < MinShardPool THEN MinShardPool ELSE per0
  IN  slab_prewarm([pool        |-> PoolBase(i),
                    pool_size   |-> per,
                    pool_pos    |-> 0,
                    tab         |-> EmptyTable(init_cap),
                    cap         |-> init_cap,
                    used        |-> 0,
                    count       |-> 0,
                    new_tab     |-> NoTable,
                    new_cap     |-> 0,
                    new_used    |-> 0,
                    migrate_pos |-> 0,
                    min_s       |-> min_s,
                    max_s       |-> max_s,
                    freelist    |-> [c \in min_s .. max_s |-> NULL],
                    hits        |-> 0,
                    misses      |-> 0,
                    ent         |-> NoFunction,
                    mem         |-> NoFunction,
                    fault       |-> "none"])

\* One iteration of the loop of hinotetsu_open in the build of this model.
shard_open(i) ==
  shard_open_with(i, PoolSizeBytes, HINOTETSU_SHARDS, HINOTETSU_INIT_CAP,
                  HINOTETSU_SLAB_MIN_SHIFT, HINOTETSU_SLAB_MAX_SHIFT)

\* One iteration of the loop of hinotetsu_flush without  s->count = 0.
shard_flush_keep_count(s) ==
  slab_prewarm([s EXCEPT !.tab = EmptyTable(s.cap),
                         !.new_tab = NoTable,
                         !.new_cap = 0,
                         !.new_used = 0,
                         !.migrate_pos = 0,
                         !.pool_pos = 0,
                         !.used = 0,
                         !.hits = 0,
                         !.misses = 0,
                         !.freelist = [c \in DOMAIN @ |-> NULL],
                         !.ent = NoFunction,
                         !.mem = NoFunction])

\* One iteration of the loop of hinotetsu_flush.  The Entry structs and
\* buffers of the arena are all unreferenced once the tables are cleared and
\* the arena offset is back at 0, so the model forgets them.
shard_flush(s) ==
  slab_prewarm([s EXCEPT !.tab = EmptyTable(s.cap),
                         !.new_tab = NoTable,
                         !.new_cap = 0,
                         !.new_used = 0,
                         !.migrate_pos = 0,
                         !.pool_pos = 0,
                         !.used = 0,
                         !.count = 0,
                         !.hits = 0,
                         !.misses = 0,
                         !.freelist = [c \in DOMAIN @ |-> NULL],
                         !.ent = NoFunction,
                         !.mem = NoFunction])

ShardIds == 0 .. (HINOTETSU_SHARDS - 1)

RECURSIVE SumOver(_, _)
SumOver(f, S) ==
  IF S = {} THEN 0
  ELSE LET x == CHOOSE y \in S : TRUE IN f[x] + SumOver(f, S \ {x})

\* hinotetsu_stats on the shard array sh.
hinotetsu_stats(sh) ==
  [count       |-> SumOver([i \in ShardIds |-> sh[i].count], ShardIds),
   memory_used |-> SumOver([i \in ShardIds |-> sh[i].pool_pos], ShardIds),
   pool_size   |-> PoolSizeBytes,
   hits        |-> SumOver([i \in ShardIds |-> sh[i].hits], ShardIds),
   misses      |-> SumOver([i \in ShardIds |-> sh[i].misses], ShardIds),
   resize_in_progress |-> Cardinality({i \in ShardIds : sh[i].new_tab # NoTable})]

\* One iteration of the loop of hinotetsu_open of hinotetsu2.c: no pre-warm.
v2_shard_open(i) ==
  LET per0 == PoolSizeBytes \div HINOTETSU_SHARDS
      per  == IF per0 < MinShardPool THEN MinShardPool ELSE per0
  IN  [pool        |-> PoolBase(i),
       pool_size   |-> per,
       pool_pos    |-> 0,
       tab         |-> EmptyTable(HINOTETSU_INIT_CAP),
       cap         |-> HINOTETSU_INIT_CAP,
       used        |-> 0,
       count       |-> 0,
       new_tab     |-> NoTable,
       new_cap     |-> 0,
       new_used    |-> 0,
       migrate_pos |-> 0,
       min_s       |-> HINOTETSU_SLAB_MIN_SHIFT,
       max_s       |-> HINOTETSU_SLAB_MAX_SHIFT,
       freelist    |-> [c \in SlabClasses |-> NULL],
       hits        |-> 0,
       misses      |-> 0,
       ent         |-> NoFunction,
       mem         |-> NoFunction,
       fault       |-> "none"]

(* --------------- the memcached daemon (hinotetsu2d_uv.c) --------------- *)

(* The daemon serves the text protocol over libuv, single-threaded, on the   *)
(* _nolock API of hinotetsu2.c.  Its tuning macros are guarded by #ifndef;   *)
(* the model is the build                                                    *)
(*   -DMAX_KEY=2 -DMAX_SET_BYTES=2 -DMAX_LINE=20 -DFLUSH_THRESHOLD=16        *)
(* so that a key longer than MAX_KEY, a data block longer than               *)
(* MAX_SET_BYTES, a line longer than MAX_LINE and a flush in the middle of   *)
(* a batch of responses all happen with short inputs.  A byte is its code    *)
(* 0..255; a char array or a stream is a sequence of bytes.                  *)

MAX_LINE == 20
MAX_KEY == 2
MAX_SET_BYTES == 2
WRITE_BUF_INIT_CAP == 524288
FLUSH_THRESHOLD == 16
INT32_MAX == 2147483647

\* sizeof(cmd) of the parsers, g_get_buf_cap as main sets it, and the floor
\* of ensure_get_buf.
CmdSize == 16
GetBufInitCap == 65536
GetBufFloor == 4096

CharNUL == 0
CharTAB == 9
CharLF == 10
CharCR == 13
CharSP == 32
CharMinus == 45
Char0 == 48
Char9 == 57

\* The string literals of the daemon.
CmdSet == <<115, 101, 116>>
CmdGet == <<103, 101, 116>>
CmdDelete == <<100, 101, 108, 101, 116, 101>>
CmdStats == <<115, 116, 97, 116, 115>>
CmdFlushAll == <<102, 108, 117, 115, 104, 95, 97, 108, 108>>
CmdQuit == <<113, 117, 105, 116>>
\* "\r\n"
CRLF == <<13, 10>>
\* "STORED\r\n"
RespStored == <<83, 84, 79, 82, 69, 68, 13, 10>>
\* "SERVER_ERROR out of memory\r\n"
RespOutOfMemory == <<83, 69, 82, 86, 69, 82, 95, 69, 82, 82, 79, 82, 32, 111, 117, 116, 32, 111, 102, 32, 109, 101, 109, 111, 114, 121, 13, 10>>
\* "SERVER_ERROR\r\n"
RespServerError == <<83, 69, 82, 86, 69, 82, 95, 69, 82, 82, 79, 82, 13, 10>>
\* "END\r\n"
RespEnd == <<69, 78, 68, 13, 10>>
\* "DELETED\r\n"
RespDeleted == <<68, 69, 76, 69, 84, 69, 68, 13, 10>>
\* "NOT_FOUND\r\n"
RespNotFound == <<78, 79, 84, 95, 70, 79, 85, 78, 68, 13, 10>>
\* "OK\r\n"
RespOk == <<79, 75, 13, 10>>
\* "ERROR\r\n"
RespError == <<69, 82, 82, 79, 82, 13, 10>>
\* "CLIENT_ERROR bad command line format\r\n"
RespBadFormat == <<67, 76, 73, 69, 78, 84, 95, 69, 82, 82, 79, 82, 32, 98, 97, 100, 32, 99, 111, 109, 109, 97, 110, 100, 32, 108, 105, 110, 101, 32, 102, 111, 114, 109, 97, 116, 13, 10>>
\* "CLIENT_ERROR bad data chunk\r\n"
RespBadChunk == <<67, 76, 73, 69, 78, 84, 95, 69, 82, 82, 79, 82, 32, 98, 97, 100, 32, 100, 97, 116, 97, 32, 99, 104, 117, 110, 107, 13, 10>>
\* "CLIENT_ERROR bad command\r\n"
RespBadCommand == <<67, 76, 73, 69, 78, 84, 95, 69, 82, 82, 79, 82, 32, 98, 97, 100, 32, 99, 111, 109, 109, 97, 110, 100, 13, 10>>
\* "VALUE " and " 0 " of the header of handle_get, "\r\nEND\r\n" after the data
ValueWord == <<86, 65, 76, 85, 69, 32>>
ValueFlags == <<32, 48, 32>>
ValueEnd == <<13, 10, 69, 78, 68, 13, 10>>
\* HINOTETSU_VERSION_STRING of hinotetsu2.h
VersionString == <<50, 46, 50, 45, 115, 104, 97, 114, 100, 101, 100, 45, 103, 101, 116, 105, 110, 116, 111, 45, 115, 108, 97, 98, 45, 110, 111, 108, 111, 99, 107>>
\* The words of the format string of handle_stats.
StatVersion == <<83, 84, 65, 84, 32, 118, 101, 114, 115, 105, 111, 110, 32>>
StatCurrItems == <<83, 84, 65, 84, 32, 99, 117, 114, 114, 95, 105, 116, 101, 109, 115, 32>>
StatBytes == <<83, 84, 65, 84, 32, 98, 121, 116, 101, 115, 32>>
StatLimit == <<83, 84, 65, 84, 32, 108, 105, 109, 105, 116, 95, 109, 97, 120, 98, 121, 116, 101, 115, 32>>
StatHits == <<83, 84, 65, 84, 32, 103, 101, 116, 95, 104, 105, 116, 115, 32>>
StatMisses == <<83, 84, 65, 84, 32, 103, 101, 116, 95, 109, 105, 115, 115, 101, 115, 32>>
StatBloomBits == <<83, 84, 65, 84, 32, 98, 108, 111, 111, 109, 95, 98, 105, 116, 115, 32>>
\* "STAT bloom_fill_pct " and the %.2f of a bloom_fill_rate of 0.0
StatBloomFill == <<83, 84, 65, 84, 32, 98, 108, 111, 111, 109, 95, 102, 105, 108, 108, 95, 112, 99, 116, 32, 48, 46, 48, 48>>
\* "STAT storage_mode " and the word for mode 0
StatMode == <<83, 84, 65, 84, 32, 115, 116, 111, 114, 97, 103, 101, 95, 109, 111, 100, 101, 32, 104, 97, 115, 104>>

\* The i-th of the strings in the sequence ss and all after it, joined.
RECURSIVE Concat(_, _)
Concat(ss, i) == IF i > Len(ss) THEN << >> ELSE ss[i] \o Concat(ss, i + 1)

\* %zu: the decimal digits of n.
RECURSIVE Decimal(_)
Decimal(n) == IF n < 10 THEN <<Char0 + n>> ELSE Append(Decimal(n \div 10), Char0 + (n % 10))

\* strlen of the char array buf from position i on (positions count from 1).
RECURSIVE StrEnd(_, _)
StrEnd(buf, i) == IF i > Len(buf) \/ buf[i] = CharNUL THEN i - 1 ELSE StrEnd(buf, i + 1)

\* The C string a char array holds: its bytes before the first NUL.
CStr(buf) == SubSeq(buf, 1, StrEnd(buf, 1))

\* *p for position p of the C string s, whose terminator follows its last byte.
CharAt(s, p) == IF p <= Len(s) THEN s[p] ELSE CharNUL

\* isdigit
IsDigit(b) == b >= Char0 /\ b <= Char9

\* find_crlf: the offset of the first "\r\n" in buf, or -1.
RECURSIVE find_crlf_from(_, _)
find_crlf_from(buf, i) ==
  IF i + 1 >= Len(buf) THEN 0 - 1
  ELSE IF buf[i + 1] = CharCR /\ buf[i + 2] = CharLF THEN i
  ELSE find_crlf_from(buf, i + 1)

find_crlf(buf) == find_crlf_from(buf, 0)

\* skip_spaces: the position of the first byte at or after p that is neither
\* a space nor a tab.
RECURSIVE skip_spaces(_, _)
skip_spaces(s, p) ==
  IF CharAt(s, p) = CharSP \/ CharAt(s, p) = CharTAB THEN skip_spaces(s, p + 1) ELSE p

\* The loop of parse_token: [p, out].  A byte that does not fit in out is
\* skipped, not refused.
RECURSIVE token_loop(_, _, _, _)
token_loop(s, p, out, out_size) ==
  IF CharAt(s, p) \in {CharNUL, CharSP, CharTAB, CharCR, CharLF}
  THEN [p |-> p, out |-> out]
  ELSE token_loop(s, p + 1,
                  IF Len(out) < out_size - 1 THEN Append(out, s[p]) ELSE out,
                  out_size)

\* parse_token: [p, out]; *out_len is Len(out).
parse_token(s, p, out_size) == token_loop(s, skip_spaces(s, p), << >>, out_size)

\* The digit loop of parse_uint: [p, val, over].  val is a long and stops
\* growing at the first value above INT32_MAX.
RECURSIVE uint_loop(_, _, _)
uint_loop(s, p, val) ==
  IF ~IsDigit(CharAt(s, p)) THEN [p |-> p, val |-> val, over |-> FALSE]
  ELSE IF val > (INT32_MAX - (s[p] - Char0)) \div 10
       THEN [p |-> p, val |-> val, over |-> TRUE]
       ELSE uint_loop(s, p + 1, val * 10 + (s[p] - Char0))

\* parse_uint once the digits have been read into r.
uint_done(r, neg, out0) ==
  IF r.over THEN [p |-> r.p, out |-> out0, ok |-> 0]
  ELSE [p |-> r.p, out |-> IF neg THEN 0 - r.val ELSE r.val, ok |-> 1]

\* parse_uint after the sign.
uint_digits(s, p, neg, out0) ==
  IF ~IsDigit(CharAt(s, p)) THEN [p |-> p, out |-> out0, ok |-> 0]
  ELSE uint_done(uint_loop(s, p, 0), neg, out0)

\* parse_uint after skip_spaces.
uint_sign(s, p, out0) ==
  IF ~IsDigit(CharAt(s, p)) /\ CharAt(s, p) # CharMinus
  THEN [p |-> p, out |-> out0, ok |-> 0]
  ELSE IF CharAt(s, p) = CharMinus THEN uint_digits(s, p + 1, TRUE, out0)
       ELSE uint_digits(s, p, FALSE, out0)

\* parse_uint: [p, out, ok]; out0 is what *out held before the call.
parse_uint(s, p, out0) == uint_sign(s, skip_spaces(s, p), out0)

\* What parse_set_cmd hands back: its return value and its out-parameters.
SetCmd(rc, key, flags, exptime, bytes) ==
  [rc |-> rc, key |-> key, flags |-> flags, exptime |-> exptime, bytes |-> bytes]

\* parse_set_cmd from the bytes field on.
set_cmd_bytes(s, key, flags, exptime, b) ==
  IF b.ok = 0 \/ b.out < 0 THEN SetCmd(0 - 1, key, flags, exptime, b.out)
  ELSE IF CharAt(s, skip_spaces(s, b.p)) # CharNUL
       THEN SetCmd(0 - 1, key, flags, exptime, b.out)
       ELSE SetCmd(0, key, flags, exptime, b.out)

\* parse_set_cmd from the exptime field on.
set_cmd_exptime(s, key, flags, x) ==
  IF x.ok = 0 THEN SetCmd(0 - 1, key, flags, x.out, 0 - 1)
  ELSE set_cmd_bytes(s, key, flags, x.out, parse_uint(s, x.p, 0 - 1))

\* parse_set_cmd from the flags field on.
set_cmd_flags(s, key, f) ==
  IF f.ok = 0 THEN SetCmd(0 - 1, key, f.out, 0, 0 - 1)
  ELSE set_cmd_exptime(s, key, f.out, parse_uint(s, f.p, 0))

\* parse_set_cmd from the key token k on.
set_cmd_key(s, k) ==
  IF Len(k.out) = 0 \/ Len(k.out) > MAX_KEY THEN SetCmd(0 - 1, k.out, 0, 0, 0 - 1)
  ELSE set_cmd_flags(s, k.out, parse_uint(s, k.p, 0))

\* parse_set_cmd from the command token t on.
set_cmd_word(s, t, key_size) ==
  IF t.out # CmdSet THEN SetCmd(0 - 1, << >>, 0, 0, 0 - 1)
  ELSE set_cmd_key(s, parse_token(s, t.p, key_size))

\* parse_set_cmd on the C string s: [rc, key, flags, exptime, bytes].
parse_set_cmd(s, key_size) == set_cmd_word(s, parse_token(s, 1, CmdSize), key_size)

\* parse_single_key_cmd from the key token k on.
single_key_key(s, k) ==
  IF Len(k.out) = 0 \/ Len(k.out) > MAX_KEY THEN [rc |-> 0 - 1, key |-> k.out]
  ELSE IF CharAt(s, skip_spaces(s, k.p)) # CharNUL THEN [rc |-> 0 - 1, key |-> k.out]
       ELSE [rc |-> 0, key |-> k.out]

\* parse_single_key_cmd from the command token t on.
single_key_word(s, t, cmd_name, key_size) ==
  IF t.out # cmd_name THEN [rc |-> 0 - 1, key |-> << >>]
  ELSE single_key_key(s, parse_token(s, t.p, key_size))

\* parse_single_key_cmd on the C string s: [rc, key].
parse_single_key_cmd(s, cmd_name, key_size) ==
  single_key_word(s, parse_token(s, 1, CmdSize), cmd_name, key_size)

(* A value of the protocol is the byte sequence of its data block.  The    *)
(* engine gets it as <<length, content>> with the bytes packed into content *)
(* least significant first, so that a one-byte value is <<1, byte>>.        *)
RECURSIVE PackBytes(_, _)
PackBytes(bs, i) == IF i > Len(bs) THEN 0 ELSE bs[i] + 256 * PackBytes(bs, i + 1)

PackValue(bs) == <<Len(bs), PackBytes(bs, 1)>>

RECURSIVE Pow256(_)
Pow256(n) == IF n = 0 THEN 1 ELSE 256 * Pow256(n - 1)

\* The bytes of the value v as they lie in the buffer it was read into.
UnpackValue(v) ==
  [i \in 1 .. v[1] |-> IF v[2] < 0 THEN GarbageByte
                       ELSE (v[2] \div Pow256(i - 1)) % 256]

\* One iteration of the loop of hinotetsu_flush_nolock of hinotetsu2.c.
v2_shard_flush(s) ==
  [s EXCEPT !.tab = EmptyTable(s.cap),
            !.pool_pos = 0,
            !.used = 0,
            !.count = 0,
            !.hits = 0,
            !.misses = 0,
            !.freelist = [c \in SlabClasses |-> NULL],
            !.ent = NoFunction,
            !.mem = NoFunction]

\* hinotetsu_stats_nolock of hinotetsu2.c on the shard array db.
v2_stats_nolock(db) ==
  [count       |-> SumOver([i \in ShardIds |-> db[i].count], ShardIds),
   memory_used |-> SumOver([i \in ShardIds |-> db[i].pool_pos], ShardIds),
   pool_size   |-> PoolSizeBytes,
   hits        |-> SumOver([i \in ShardIds |-> db[i].hits], ShardIds),
   misses      |-> SumOver([i \in ShardIds |-> db[i].misses], ShardIds),
   bloom_bits  |-> 0]

(* The state a callback of the daemon works on is the record d:             *)
(*   c            the Conn                                                  *)
(*   db           g_db, the shard array of the hinotetsu2.c engine          *)
(*   get_buf_cap  g_get_buf_cap                                             *)
(*   now          what now_sec() returns during the callback                *)
(*   ret, out, need   results of the latest engine call                     *)
(* and, kept for the properties and not read by the daemon,                 *)
(*   resps   every byte handed to conn_append_output, in order              *)
(*   calls   every call of the engine: <<name, key, value, result>>         *)
(*   eaten   number of bytes of the stream consumed by consume_prefix       *)
(*   log     one record per command line and per data block processed       *)

\* The Conn that on_new_conn sets up.  An output buffer is the sequence of
\* the bytes written to it so far; what lies behind them is not initialised.
\* req is the uv_write under way: the buffer and length it was given, the
\* bytes the buffer held at the call, and whether the buffer has been
\* reallocated since.
NoWrite == [idx |-> 0, len |-> 0, snap |-> << >>, moved |-> FALSE]

on_new_conn ==
  [open            |-> TRUE,
   inbuf           |-> << >>,
   outbuf          |-> << << >>, << >> >>,
   out_len         |-> 0,
   out_cap         |-> WRITE_BUF_INIT_CAP,
   out_active      |-> 0,
   pending_set     |-> 0,
   pending_key     |-> << >>,
   pending_flags   |-> 0,
   pending_exptime |-> 0,
   pending_bytes   |-> 0,
   writing         |-> 0,
   closing         |-> 0,
   req             |-> NoWrite]

\* No client has connected yet.
NoConn == [on_new_conn EXCEPT !.open = FALSE]

\* memcpy(buf + off, data, len) on an output buffer.
BufWrite(buf, off, data) ==
  [i \in 1 .. (IF Len(buf) > off + Len(data) THEN Len(buf) ELSE off + Len(data)) |->
     IF i > off /\ i <= off + Len(data) THEN data[i - off]
     ELSE IF i <= Len(buf) THEN buf[i] ELSE GarbageByte]

\* The first len bytes of an output buffer, as a write of them sends them.
BufRead(buf, len) ==
  [i \in 1 .. len |-> IF i <= Len(buf) THEN buf[i] ELSE GarbageByte]

\* conn_flush_output.  uv_write returns 0 iff d.wr_ok; when it does not, the
\* fields are put back, closing is set and uv_close is called (d.closes
\* counts the calls of uv_close on the connection).
conn_flush_output(d) ==
  IF d.c.closing # 0 \/ d.c.writing # 0 \/ d.c.out_len = 0 THEN d
  ELSE IF ~d.wr_ok THEN [d EXCEPT !.c.closing = 1, !.closes = @ + 1]
  ELSE [d EXCEPT !.c.writing = 1,
                 !.c.out_active = 1 - d.c.out_active,
                 !.c.out_len = 0,
                 !.c.req = [idx   |-> d.c.out_active,
                            len   |-> d.c.out_len,
                            snap  |-> BufRead(d.c.outbuf[d.c.out_active + 1], d.c.out_len),
                            moved |-> FALSE]]

\* The loop  while (cap < need) cap <<= 1  of conn_append_output.
RECURSIVE grow_cap(_, _)
grow_cap(cap, need) == IF cap < need THEN grow_cap(2 * cap, need) ELSE cap

\* The index conn_append_output picks.
append_idx(c) == IF c.writing # 0 THEN 1 - c.out_active ELSE c.out_active

\* conn_append_output up to the threshold test: the growth of both buffers
\* (xrealloc keeps their bytes) and the memcpy into outbuf[idx].
append_copy(d, data, idx) ==
  [d EXCEPT !.c.out_cap = IF d.c.out_len + Len(data) > @
                          THEN grow_cap(IF @ # 0 THEN @ ELSE WRITE_BUF_INIT_CAP,
                                        d.c.out_len + Len(data))
                          ELSE @,
            !.c.req.moved = @ \/ (d.c.writing # 0 /\ d.c.out_len + Len(data) > d.c.out_cap),
            !.c.outbuf[idx + 1] = BufWrite(@, d.c.out_len, data),
            !.c.out_len = @ + Len(data),
            !.resps = @ \o data]

\* The threshold test that ends conn_append_output.
append_flush(d) ==
  IF d.c.out_len >= FLUSH_THRESHOLD /\ d.c.writing = 0 THEN conn_flush_output(d) ELSE d

\* conn_append_output
conn_append_output(d, data) ==
  IF d.c.closing # 0 THEN d ELSE append_flush(append_copy(d, data, append_idx(d.c)))

\* conn_append_str: s has no NUL.
conn_append_str(d, s) == conn_append_output(d, s)

\* write_cb with a uv_close whenever the write failed or the connection is
\* closing.
write_cb_closes_again(d, status) ==
  IF status < 0 \/ d.c.closing # 0
  THEN [d EXCEPT !.c.writing = 0, !.c.closing = 1, !.closes = @ + 1]
  ELSE IF d.c.out_len > 0
       THEN conn_flush_output([d EXCEPT !.c.writing = 0])
       ELSE [d EXCEPT !.c.writing = 0]

\* write_cb
write_cb(d, status) ==
  IF status < 0 \/ d.c.closing # 0
  THEN [d EXCEPT !.c.writing = 0, !.c.closing = 1,
                 !.closes = IF d.c.closing = 0 THEN @ + 1 ELSE @]
  ELSE IF d.c.out_len > 0
       THEN conn_flush_output([d EXCEPT !.c.writing = 0])
       ELSE [d EXCEPT !.c.writing = 0]

\* The engine call e, with results r, as the daemon sees it: r.s is the
\* shard i it left.
engine_result(d, i, e, r) ==
  [d EXCEPT !.db[i] = r.s,
            !.ret = r.ret,
            !.calls = Append(@, <<e[1], e[2], e[3], r.ret>>)]

\* An engine call that is refused for its arguments.
engine_refused(d, e) ==
  [d EXCEPT !.ret = HINOTETSU_ERR_IO,
            !.calls = Append(@, <<e[1], e[2], e[3], HINOTETSU_ERR_IO>>)]

\* hinotetsu_set_nolock of hinotetsu2.c on g_db
hinotetsu_set_nolock(d, key, val, ttl) ==
  IF Len(key) = 0 THEN engine_refused(d, <<"set", key, val>>)
  ELSE engine_result(d, shard_id_for(fnv1a64(key)), <<"set", key, val>>,
                     v2_set_internal(d.db[shard_id_for(fnv1a64(key))], fnv1a64(key), key, val, ttl, d.now))

\* hinotetsu_get_into_nolock once get_into_internal has returned r.
get_into_result(d, i, key, r) ==
  [engine_result(d, i, <<"get", key, EmptyValue>>, r)
     EXCEPT !.out = r.out, !.need = r.out_vlen]

\* hinotetsu_get_into_nolock of hinotetsu2.c on g_db with g_get_buf
hinotetsu_get_into_nolock(d, key) ==
  IF Len(key) = 0 THEN engine_refused(d, <<"get", key, EmptyValue>>)
  ELSE get_into_result(d, shard_id_for(fnv1a64(key)), key,
                       v2_get_into_internal(d.db[shard_id_for(fnv1a64(key))], fnv1a64(key), key,
                                            d.get_buf_cap, d.now))

\* hinotetsu_delete_nolock of hinotetsu2.c on g_db
hinotetsu_delete_nolock(d, key) ==
  IF Len(key) = 0 THEN engine_refused(d, <<"delete", key, EmptyValue>>)
  ELSE engine_result(d, shard_id_for(fnv1a64(key)), <<"delete", key, EmptyValue>>,
                     v2_delete_internal(d.db[shard_id_for(fnv1a64(key))], fnv1a64(key), key))

\* hinotetsu_flush_nolock of hinotetsu2.c on g_db
hinotetsu_flush_nolock(d) ==
  [d EXCEPT !.db = [i \in ShardIds |-> v2_shard_flush(d.db[i])],
            !.calls = Append(@, <<"flush", << >>, EmptyValue, HINOTETSU_OK>>)]

\* ensure_get_buf; realloc is taken to succeed.
ensure_get_buf(d, need) ==
  IF d.get_buf_cap < need
  THEN [d EXCEPT !.get_buf_cap = grow_cap(IF @ # 0 THEN @ ELSE GetBufFloor, need)]
  ELSE d

\* (uint32_t)(exptime < 0 ? 0 : exptime)
TtlOf(exptime) ==
  IF exptime < 0 THEN U32Zero ELSE U32(exptime \div 65536, exptime % 65536)

\* The response of handle_set to the result of the engine.
set_reply(d) ==
  conn_append_str(d, IF d.ret = HINOTETSU_OK THEN RespStored ELSE RespOutOfMemory)

\* handle_set
handle_set(d, key, flags, exptime, value) ==
  set_reply(hinotetsu_set_nolock(d, key, PackValue(value), TtlOf(exptime)))

\* snprintf(header, sizeof(header), "VALUE %s 0 %zu\r\n", key, need)
ValueHeader(key, need) == Concat(<<ValueWord, key, ValueFlags, Decimal(need), CRLF>>, 1)

\* sizeof(header) of handle_get
HeaderSize == 512

\* The three appends that end handle_get.
get_send(d, header) ==
  conn_append_str(conn_append_output(conn_append_output(d, header),
                                     UnpackValue(<<d.need, d.out[2]>>)),
                  ValueEnd)

\* handle_get after the engine calls.
get_reply(d, key) ==
  IF d.ret # HINOTETSU_OK THEN conn_append_str(d, RespEnd)
  ELSE IF Len(ValueHeader(key, d.need)) >= HeaderSize THEN conn_append_str(d, RespServerError)
  ELSE get_send(d, ValueHeader(key, d.need))

\* handle_get after the first engine call.
get_again(d, key) ==
  IF d.ret = HINOTETSU_ERR_TOOSMALL
  THEN get_reply(hinotetsu_get_into_nolock(ensure_get_buf(d, d.need), key), key)
  ELSE get_reply(d, key)

\* handle_get
handle_get(d, key) ==
  get_again(hinotetsu_get_into_nolock(ensure_get_buf([d EXCEPT !.need = 0], GetBufFloor), key), key)

\* The response of handle_delete to the result of the engine.
delete_reply(d) ==
  conn_append_str(d, IF d.ret = HINOTETSU_OK THEN RespDeleted ELSE RespNotFound)

\* handle_delete
handle_delete(d, key) == delete_reply(hinotetsu_delete_nolock(d, key))

\* sizeof(buf) of handle_stats
StatsBufSize == 2048

\* The text snprintf of handle_stats makes of st.
StatsText(st) ==
  Concat(<<StatVersion, VersionString, CRLF,
           StatCurrItems, Decimal(st.count), CRLF,
           StatBytes, Decimal(st.memory_used), CRLF,
           StatLimit, Decimal(st.pool_size), CRLF,
           StatHits, Decimal(st.hits), CRLF,
           StatMisses, Decimal(st.misses), CRLF,
           StatBloomBits, Decimal(st.bloom_bits), CRLF,
           StatBloomFill, CRLF,
           StatMode, CRLF,
           RespEnd>>, 1)

\* handle_stats once the text is made.
stats_send(d, text) ==
  IF Len(text) > 0 /\ Len(text) < StatsBufSize THEN conn_append_output(d, text)
  ELSE conn_append_str(d, RespServerError)

\* handle_stats
handle_stats(d) ==
  stats_send([d EXCEPT !.calls = Append(@, <<"stats", << >>, EmptyValue, HINOTETSU_OK>>)],
             StatsText(v2_stats_nolock(d.db)))

\* handle_flush
handle_flush(d) == conn_append_str(hinotetsu_flush_nolock(d), RespOk)

\* consume_prefix on the input buffer.
consume_prefix(inbuf, n) ==
  IF n = 0 THEN inbuf
  ELSE IF n >= Len(inbuf) THEN << >>
  ELSE SubSeq(inbuf, n + 1, Len(inbuf))

\* consume_prefix(c, n), and the count of the bytes of the stream it took.
consume(d, n) ==
  [d EXCEPT !.c.inbuf = consume_prefix(@, n),
            !.eaten = @ + (IF n >= Len(d.c.inbuf) THEN Len(d.c.inbuf) ELSE n)]

\* What a get of key would find in the engine as d holds it.
StoredFor(d, key) ==
  v2_get_into_internal(d.db[shard_id_for(fnv1a64(key))], fnv1a64(key), key,
                       d.get_buf_cap, d.now).out

\* The record of one pass of the loop of parse_and_dispatch that started in
\* d0 and led to d1: kind "line" or "data", the offset in the stream and the
\* number of bytes it consumed, the bytes of inbuf it was about, the number
\* of bytes inbuf held, what it appended to the output and the engine calls
\* it made, for a data block what the engine then holds for the key, and the
\* closing flag and pending_set it left.
Logged(d0, d1, kind, bytes) ==
  [d1 EXCEPT !.log = Append(@,
     [kind    |-> kind,
      at      |-> d0.eaten,
      used    |-> d1.eaten - d0.eaten,
      bytes   |-> bytes,
      have    |-> Len(d0.c.inbuf),
      n       |-> d0.c.pending_bytes,
      resp    |-> SubSeq(d1.resps, Len(d0.resps) + 1, Len(d1.resps)),
      calls   |-> SubSeq(d1.calls, Len(d0.calls) + 1, Len(d1.calls)),
      stored  |-> IF kind = "data" THEN StoredFor(d1, d0.c.pending_key) ELSE EmptyValue,
      closing |-> d1.c.closing,
      pending |-> d1.c.pending_set])]

\* need without the two bytes of the terminator.
pending_need_short(c) == c.pending_bytes

\* size_t need = (size_t)c->pending_bytes + 2
pending_need(c) == c.pending_bytes + 2

\* The value handle_set is given, were it the whole block with its "\r\n".
pending_value_whole(c) == SubSeq(c.inbuf, 1, c.pending_bytes + 2)

\* The value handle_set is given: pending_bytes bytes at c->inbuf.
pending_value(c) == SubSeq(c.inbuf, 1, c.pending_bytes)

\* The pending-set branch of parse_and_dispatch once the block is there.
pending_store(d) ==
  [consume(handle_set(d, d.c.pending_key, d.c.pending_flags, d.c.pending_exptime,
                      pending_value(d.c)),
           pending_need(d.c))
     EXCEPT !.c.pending_set = 0]

\* The set branch of parse_and_dispatch after parse_set_cmd has returned r.
command_set(d, r) ==
  IF r.rc # 0 THEN conn_append_str(d, RespBadFormat)
  ELSE IF r.bytes < 0 \/ r.bytes > MAX_SET_BYTES THEN conn_append_str(d, RespBadChunk)
  ELSE [d EXCEPT !.c.pending_set = 1,
                 !.c.pending_key = IF Len(r.key) >= MAX_KEY + 1 THEN @ ELSE r.key,
                 !.c.pending_flags = r.flags,
                 !.c.pending_exptime = r.exptime,
                 !.c.pending_bytes = r.bytes]

\* The get branch after parse_single_key_cmd has returned r.
command_get(d, r) ==
  IF r.rc # 0 THEN conn_append_str(d, RespBadCommand) ELSE handle_get(d, r.key)

\* The delete branch after parse_single_key_cmd has returned r.
command_delete(d, r) ==
  IF r.rc # 0 THEN conn_append_str(d, RespBadCommand) ELSE handle_delete(d, r.key)

\* The stats branch: p = skip_spaces(line + 5).
command_stats(d, line) ==
  IF CharAt(line, skip_spaces(line, Len(CmdStats) + 1)) # CharNUL
  THEN conn_append_str(d, RespBadCommand)
  ELSE handle_stats(d)

\* The flush_all branch: p = skip_spaces(line + 9).
command_flush(d, line) ==
  IF CharAt(line, skip_spaces(line, Len(CmdFlushAll) + 1)) # CharNUL
  THEN conn_append_str(d, RespBadCommand)
  ELSE handle_flush(d)

\* The chain of strcmp(cmd, ...) of parse_and_dispatch on the C string line.
command(d, line, cmd) ==
  IF cmd = CmdSet THEN command_set(d, parse_set_cmd(line, MAX_KEY + 1))
  ELSE IF cmd = CmdGet THEN command_get(d, parse_single_key_cmd(line, CmdGet, MAX_KEY + 1))
  ELSE IF cmd = CmdDelete
       THEN command_delete(d, parse_single_key_cmd(line, CmdDelete, MAX_KEY + 1))
  ELSE IF cmd = CmdStats THEN command_stats(d, line)
  ELSE IF cmd = CmdFlushAll THEN command_flush(d, line)
  ELSE IF cmd = CmdQuit THEN [d EXCEPT !.c.closing = 1, !.closes = @ + 1]
  ELSE conn_append_str(d, RespError)

\* One command line of line_len bytes at the head of inbuf: the part of the
\* loop of parse_and_dispatch after find_crlf.
command_line(d, raw) ==
  IF Len(raw) > MAX_LINE THEN conn_append_str(consume(d, Len(raw) + 2), RespBadFormat)
  ELSE command(consume(d, Len(raw) + 2), CStr(raw), parse_token(CStr(raw), 1, CmdSize).out)

\* The loop of parse_and_dispatch and the flush after it.
RECURSIVE dispatch_loop(_)
dispatch_loop(d) ==
  IF d.c.closing # 0 THEN d
  ELSE IF d.c.pending_set # 0
       THEN IF Len(d.c.inbuf) < pending_need(d.c) THEN conn_flush_output(d)
            ELSE dispatch_loop(Logged(d, pending_store(d), "data",
                                      SubSeq(d.c.inbuf, 1, pending_need(d.c))))
  ELSE IF find_crlf(d.c.inbuf) < 0 THEN conn_flush_output(d)
  ELSE dispatch_loop(Logged(d, command_line(d, SubSeq(d.c.inbuf, 1, find_crlf(d.c.inbuf))),
                            "line", SubSeq(d.c.inbuf, 1, find_crlf(d.c.inbuf))))

\* parse_and_dispatch
parse_and_dispatch(d) == IF d.c.closing # 0 THEN d ELSE dispatch_loop(d)

\* read_cb for nread > 0 bytes; the growth of inbuf keeps its bytes.
read_cb(d, data) ==
  IF d.c.closing # 0 THEN d
  ELSE parse_and_dispatch([d EXCEPT !.c.inbuf = @ \o data])

\* read_cb for nread < 0: end of stream or error.
read_cb_eof(d) ==
  IF d.c.closing = 0 THEN [d EXCEPT !.c.closing = 1, !.closes = @ + 1] ELSE d

(* ------------------------------ inputs -------------------------------- *)

\* The keys "c", "d" and "a".  With one shard their home slots are 0, 1, 0 in
\* a table of 2 slots, 0, 1, 2 in one of 4 and 0, 5, 6 in one of 8.
Keys == { <<99>>, <<100>>, <<97>> }

\* The <<key, value, ttl>> arguments of the set calls.  Values: one byte 'A';
\* 9000 bytes 'B' (more than the 8192-byte buffer of hinotetsu_get); no
\* bytes; 131073 bytes 'C', above the largest slab class.  A ttl of 0 is
\* "never"; the other entries live MaxTicks seconds.
SetArgs ==
  { << <<99>>, <<1, 65>>, U32Zero >>,
    << <<99>>, <<9000, 66>>, U32(0, MaxTicks) >>,
    << <<99>>, EmptyValue, U32Zero >>,
    << <<100>>, <<1, 65>>, U32Zero >>,
    << <<100>>, <<131073, 67>>, U32Zero >>,
    << <<97>>, <<9000, 66>>, U32Zero >> }

\* dst_cap of a caller of hinotetsu_get_into.
DstCaps == { 4096 }

\* The first reading of the clock: 26000 * 65536 seconds after the epoch.
Clock0 == U32(26000, 0)

\* The stack buffer of hinotetsu_get.
GetTmpSize == 8192

(* ------------------------------- state -------------------------------- *)

VARIABLES
  shards,   \* db->shards of the hinotetsu3.c engine, by shard id
  shards2,  \* db->shards of the hinotetsu2.c engine, by shard id
  clock,    \* what now_sec() returns
  last,     \* the call that returned last, with its key and results
  last2,    \* the results of that call on the hinotetsu2.c engine, when both run
  mig,      \* per shard: calls on it since its rehash in progress started
  hist,     \* per key: the last set / delete / flush that concerned it
  nops,     \* number of calls made so far
  conn,     \* the Conn of the one connection of the daemon
  gbuf,     \* g_get_buf_cap of the daemon
  wire,     \* the client's stream, the socket, and the record of the daemon's work
  thr,      \* per thread of the locked API: where it is in its call
  rw,       \* per shard: the holders of its pthread rwlock
  written,  \* per key: the values the threads' sets have stored
  asked     \* the latest size asked of class_for_size, and the class it gave

vars == <<shards, shards2, clock, last, last2, mig, hist, nops, conn, gbuf, wire, thr, rw, written,
          asked>>

\* The variables the calls of the _nolock API and the daemon leave alone:
\* those of the threads of the locked API, and asked.
thread_vars == <<thr, rw, written, asked>>

\* The variables the daemon leaves alone, and the ones only it changes.
engine_vars == <<shards, clock, last, last2, mig, hist, nops, thread_vars>>

daemon_vars == <<conn, gbuf, wire>>

NoKey == << >>

\* class_for_size has been asked for n in a build with these bounds.
Asked(n, min_s, max_s) ==
  [n |-> n, min_s |-> min_s, max_s |-> max_s, class |-> class_for_size_with(n, min_s, max_s)]

\* aux: for a flush, the number of shards that were rehashing when it was
\* called; 0 for every other call.
LastOf(op, key, ret, out) ==
  [op |-> op, key |-> key, ret |-> ret, out |-> out, aux |-> 0]

\* The results of a call on the hinotetsu2.c engine; nomem: a call on either
\* engine has returned NOMEM so far.
Last2Of(ret, out, nomem) == [ret |-> ret, out |-> out, nomem |-> nomem]

(* The record kept per key.  st: "none" (never set), "set" (a set of the    *)
(* key has returned OK and no delete of it or flush has succeeded since),   *)
(* "deleted", "flushed".  val, ttl, at: the arguments and the clock of the  *)
(* last set that returned OK.  dirty: a set or delete of the key has        *)
(* failed since.  pre: the key was present and live in its shard when the   *)
(* latest growth of the shard started and has stayed so since.              *)
HistNone ==
  [st |-> "none", val |-> EmptyValue, ttl |-> U32Zero, at |-> U32Zero,
   dirty |-> FALSE, pre |-> FALSE]

\* The deadline at + ttl of a set, as integers, is at or before now.
DeadlinePassed(at, ttl, now) ==
  /\ ttl # U32Zero
  /\ ~U32AddCarries(at, ttl)
  /\ U32Leq(U32Add(at, ttl), now)

\* The state after construction, but for the hinotetsu3.c engine.
InitOthers ==
  /\ shards2 = [i \in ShardIds |-> v2_shard_open(i)]
  /\ clock = Clock0
  /\ last = LastOf("open", NoKey, HINOTETSU_OK, EmptyValue)
  /\ last2 = Last2Of(HINOTETSU_OK, EmptyValue, FALSE)
  /\ mig = [i \in ShardIds |-> 0]
  /\ hist = [k \in Keys |-> HistNone]
  /\ nops = 0
  /\ conn = NoConn
  /\ gbuf = GetBufInitCap
  /\ wire = [stream |-> << >>, todo |-> << >>, sock |-> << >>, resps |-> << >>,
             calls |-> << >>, eaten |-> 0, log |-> << >>, closes |-> 0]
  /\ thr = [t \in 1 .. NumThreads |->
             [pc |-> "idle", op |-> "none", key |-> NoKey,
              ret |-> HINOTETSU_OK, out |-> EmptyValue, len |-> 0]]
  /\ rw = [i \in ShardIds |-> [writer |-> 0, readers |-> {}]]
  /\ written = [k \in Keys |-> {}]
  /\ asked = Asked(SizeZero, HINOTETSU_SLAB_MIN_SHIFT, HINOTETSU_SLAB_MAX_SHIFT)

Init ==
  /\ shards = [i \in ShardIds |-> shard_open(i)]
  /\ InitOthers

\* No call has run into undefined behaviour or a probe loop without end: the
\* process is still serving calls.
Healthy ==
  \A i \in ShardIds : shards[i].fault = "none" /\ shards2[i].fault = "none"

ShardOf(key) == shard_id_for(fnv1a64(key))

\* A call that did not return (fault) is recorded as such.
Returned(s, rec) == IF s.fault = "none" THEN rec ELSE [rec EXCEPT !.op = "fault"]

\* The key is in the tables of s and neither deleted nor expired.
Present(s, key, now) == lookup_both(s, fnv1a64(key), key, now).e # NULL

\* A set on s starts a growth: the condition of shard_maybe_grow.
StartsGrowth(s) ==
  /\ s.new_tab = NoTable
  /\ s.used + 1 > (s.cap * LOAD_FACTOR_NUM) \div LOAD_FACTOR_DEN

\* hist after a set of key on shard i (state s before the call).
HistAfterSet(s, i, key, val, ttl, ok) ==
  [k \in Keys |->
     LET pre1 == IF ShardOf(k) = i /\ StartsGrowth(s)
                 THEN Present(s, k, clock)
                 ELSE hist[k].pre
     IN  IF k # key THEN [hist[k] EXCEPT !.pre = pre1]
         ELSE IF ok
              THEN [st |-> "set", val |-> val, ttl |-> ttl, at |-> clock,
                    dirty |-> FALSE, pre |-> pre1]
              ELSE [hist[k] EXCEPT !.dirty = TRUE, !.pre = pre1]]

\* hist after a delete of key.
HistAfterDelete(key, ok) ==
  [hist EXCEPT ![key] =
     IF ok THEN [@ EXCEPT !.st = "deleted", !.dirty = FALSE, !.pre = FALSE]
     ELSE IF @.st = "set" THEN [@ EXCEPT !.dirty = TRUE]
     ELSE @]

\* mig after a set, get or delete on shard i that left it as s2: one more
\* call while its rehash is in progress (the set that started the rehash is
\* the first), 0 once no rehash is in progress.
MigAfter(i, s2) == [mig EXCEPT ![i] = IF s2.new_tab = NoTable THEN 0 ELSE @ + 1]

\* hinotetsu_set_nolock(db, key, klen, value, vlen, ttl_seconds)
Set(key, val, ttl) ==
  /\ Healthy
  /\ nops' = nops + 1
  /\ LET h == fnv1a64(key)
         i == shard_id_for(h)
     IN  \E r \in { set_internal(shards[i], h, key, val, ttl, clock) } :
           /\ shards' = [shards EXCEPT ![i] = r.s]
           /\ mig' = MigAfter(i, r.s)
           /\ last' = Returned(r.s, LastOf("set", key, r.ret, EmptyValue))
           /\ hist' = HistAfterSet(shards[i], i, key, val, ttl,
                                   r.ret = HINOTETSU_OK /\ r.s.fault = "none")
  /\ UNCHANGED <<shards2, clock>>

\* hinotetsu_get_into_nolock(db, key, klen, dst, dst_cap, &out_vlen)
GetInto(key, dst_cap) ==
  /\ Healthy
  /\ nops' = nops + 1
  /\ LET h == fnv1a64(key)
         i == shard_id_for(h)
     IN  \E r \in { get_into_internal(shards[i], h, key, dst_cap, clock) } :
           /\ shards[i].hits < MaxCounter
           /\ shards[i].misses < MaxCounter
           /\ shards' = [shards EXCEPT ![i] = r.s]
           /\ mig' = MigAfter(i, r.s)
           /\ last' = Returned(r.s, LastOf("get_into", key, r.ret, r.out))
  /\ UNCHANGED <<shards2, clock, hist>>

\* The end of hinotetsu_get, r1 being the result of the call with the stack
\* buffer: a value that did not fit is read again into a buffer of its size.
get_retry(r1, h, key, now) ==
  IF r1.ret = HINOTETSU_ERR_TOOSMALL
  THEN get_into_internal(r1.s, h, key, r1.out_vlen, now)
  ELSE r1

\* hinotetsu_get(db, key, klen, &out_value, &out_vlen); malloc succeeds.
hinotetsu_get(s, h, key, now) ==
  get_retry(get_into_internal(s, h, key, GetTmpSize, now), h, key, now)

Get(key) ==
  /\ Healthy
  /\ nops' = nops + 1
  /\ LET h == fnv1a64(key)
         i == shard_id_for(h)
     IN  \E r \in { hinotetsu_get(shards[i], h, key, clock) } :
           /\ shards[i].hits < MaxCounter
           /\ shards[i].misses < MaxCounter
           /\ shards' = [shards EXCEPT ![i] = r.s]
           /\ mig' = MigAfter(i, r.s)
           /\ last' = Returned(r.s, LastOf("get", key, r.ret, r.out))
  /\ UNCHANGED <<shards2, clock, hist>>

\* hinotetsu_delete_nolock(db, key, klen)
Delete(key) ==
  /\ Healthy
  /\ nops' = nops + 1
  /\ LET h == fnv1a64(key)
         i == shard_id_for(h)
     IN  \E r \in { delete_internal(shards[i], h, key, clock) } :
           /\ shards' = [shards EXCEPT ![i] = r.s]
           /\ mig' = MigAfter(i, r.s)
           /\ last' = Returned(r.s, LastOf("delete", key, r.ret, EmptyValue))
           /\ hist' = HistAfterDelete(key, r.ret = HINOTETSU_OK /\ r.s.fault = "none")
  /\ UNCHANGED <<shards2, clock>>

\* hinotetsu_flush_nolock(db)
Flush ==
  /\ Healthy
  /\ nops' = nops + 1
  /\ shards' = [i \in ShardIds |-> shard_flush(shards[i])]
  /\ mig' = [i \in ShardIds |-> 0]
  /\ last' = [LastOf("flush", NoKey, HINOTETSU_OK, EmptyValue)
                EXCEPT !.aux = hinotetsu_stats(shards).resize_in_progress]
  /\ hist' = [k \in Keys |->
                IF hist[k].st = "none" THEN hist[k]
                ELSE [hist[k] EXCEPT !.st = "flushed", !.dirty = FALSE, !.pre = FALSE]]
  /\ UNCHANGED <<shards2, clock>>

\* A second passes.
Tick ==
  /\ Healthy
  /\ nops' = nops + 1
  /\ clock[2] < Clock0[2] + MaxTicks
  /\ clock' = U32Add(clock, U32(0, 1))
  /\ last' = LastOf("tick", NoKey, HINOTETSU_OK, EmptyValue)
  /\ hist' = [k \in Keys |->
                [hist[k] EXCEPT !.pre = @ /\ ~DeadlinePassed(hist[k].at, hist[k].ttl, clock')]]
  /\ UNCHANGED <<shards, shards2, mig>>

Next ==
  \/ \E a \in SetArgs : nops < MaxOps /\ Set(a[1], a[2], a[3]) /\ UNCHANGED <<daemon_vars, thread_vars, last2>>
  \/ \E k \in Keys, c \in DstCaps : nops < MaxOps /\ GetInto(k, c) /\ UNCHANGED <<daemon_vars, thread_vars, last2>>
  \/ \E k \in Keys : nops < MaxOps /\ Get(k) /\ UNCHANGED <<daemon_vars, thread_vars, last2>>
  \/ \E k \in Keys : nops < MaxOps /\ Delete(k) /\ UNCHANGED <<daemon_vars, thread_vars, last2>>
  \/ nops < MaxOps /\ Flush /\ UNCHANGED <<daemon_vars, thread_vars, last2>>
  \/ nops < MaxOps /\ Tick /\ UNCHANGED <<daemon_vars, thread_vars, last2>>

Spec == Init /\ [][Next]_vars

(* The same engine under a workload that keeps to few calls and runs longer: *)
(* three keys filled in, a rehash started, and the first key deleted, set    *)
(* and read while the rehash is under way.                                   *)
RehashSetArgs ==
  { << <<99>>, <<1, 65>>, U32Zero >>,
    << <<100>>, <<1, 65>>, U32Zero >>,
    << <<97>>, <<1, 65>>, U32Zero >>,
    << <<100>>, <<131073, 67>>, U32Zero >> }

RehashKeys == { <<99>> }

NextRehash ==
  \/ \E a \in RehashSetArgs : nops < MaxRehashOps /\ Set(a[1], a[2], a[3]) /\ UNCHANGED <<daemon_vars, thread_vars, last2>>
  \/ \E k \in RehashKeys : nops < MaxRehashOps /\ Get(k) /\ UNCHANGED <<daemon_vars, thread_vars, last2>>
  \/ \E k \in RehashKeys : nops < MaxRehashOps /\ Delete(k) /\ UNCHANGED <<daemon_vars, thread_vars, last2>>

SpecRehash == Init /\ [][NextRehash]_vars

(* The hinotetsu2.c engine as the memcached daemon hinotetsu2d_uv.c drives  *)
(* it: handle_set, handle_get and handle_delete call the _nolock API.       *)

\* hinotetsu_set_nolock of hinotetsu2.c
Set2(key, val, ttl) ==
  /\ Healthy
  /\ nops' = nops + 1
  /\ LET h == fnv1a64(key)
         i == shard_id_for(h)
     IN  \E r \in { v2_set_internal(shards2[i], h, key, val, ttl, clock) } :
           /\ shards2' = [shards2 EXCEPT ![i] = r.s]
           /\ last' = Returned(r.s, LastOf("set", key, r.ret, EmptyValue))
           /\ hist' = [hist EXCEPT ![key] =
                         IF r.ret = HINOTETSU_OK /\ r.s.fault = "none"
                         THEN [st |-> "set", val |-> val, ttl |-> ttl, at |-> clock,
                               dirty |-> FALSE, pre |-> FALSE]
                         ELSE [@ EXCEPT !.dirty = TRUE]]
  /\ UNCHANGED <<shards, clock, mig>>

\* hinotetsu_get_into_nolock of hinotetsu2.c
GetInto2(key, dst_cap) ==
  /\ Healthy
  /\ nops' = nops + 1
  /\ LET h == fnv1a64(key)
         i == shard_id_for(h)
     IN  \E r \in { v2_get_into_internal(shards2[i], h, key, dst_cap, clock) } :
           /\ shards2[i].hits < MaxCounter
           /\ shards2[i].misses < MaxCounter
           /\ shards2' = [shards2 EXCEPT ![i] = r.s]
           /\ last' = Returned(r.s, LastOf("get_into", key, r.ret, r.out))
  /\ UNCHANGED <<shards, clock, mig, hist>>

\* hinotetsu_delete_nolock of hinotetsu2.c
Delete2(key) ==
  /\ Healthy
  /\ nops' = nops + 1
  /\ LET h == fnv1a64(key)
         i == shard_id_for(h)
     IN  \E r \in { v2_delete_internal(shards2[i], h, key) } :
           /\ shards2' = [shards2 EXCEPT ![i] = r.s]
           /\ last' = Returned(r.s, LastOf("delete", key, r.ret, EmptyValue))
           /\ hist' = HistAfterDelete(key, r.ret = HINOTETSU_OK /\ r.s.fault = "none")
  /\ UNCHANGED <<shards, clock, mig>>

Next2 ==
  \/ \E a \in SetArgs : nops < MaxOps /\ Set2(a[1], a[2], a[3]) /\ UNCHANGED <<daemon_vars, thread_vars, last2>>
  \/ \E k \in Keys, c \in DstCaps : nops < MaxOps /\ GetInto2(k, c) /\ UNCHANGED <<daemon_vars, thread_vars, last2>>
  \/ \E k \in Keys : nops < MaxOps /\ Delete2(k) /\ UNCHANGED <<daemon_vars, thread_vars, last2>>
  \/ nops < MaxOps /\ Tick /\ UNCHANGED <<daemon_vars, thread_vars, last2>>

Spec2 == Init /\ [][Next2]_vars

(* The hinotetsu3.c engine under a workload of time-to-live values: one key  *)
(* set with ttl 0, 1, MaxTicks + 1 and UINT32_MAX, read, and the clock.     *)
TtlSetArgs ==
  { << <<99>>, <<1, 65>>, U32Zero >>,
    << <<99>>, <<1, 65>>, U32(0, 1) >>,
    << <<99>>, <<9000, 66>>, U32(0, MaxTicks + 1) >>,
    << <<99>>, <<1, 65>>, U32(65535, 65535) >>,
    << <<100>>, <<1, 65>>, U32(0, 1) >> }

TtlKeys == { <<99>>, <<100>> }

NextTtl ==
  \/ \E a \in TtlSetArgs : nops < MaxOps /\ Set(a[1], a[2], a[3]) /\ UNCHANGED <<daemon_vars, thread_vars, last2>>
  \/ \E k \in TtlKeys : nops < MaxOps /\ Get(k) /\ UNCHANGED <<daemon_vars, thread_vars, last2>>
  \/ nops < MaxOps /\ Tick /\ UNCHANGED <<daemon_vars, thread_vars, last2>>

SpecTtl == Init /\ [][NextTtl]_vars

(* The hinotetsu3.c engine under a workload that lets an entry expire while *)
(* the table fills: three keys, one of them set with a ttl of one second   *)
(* and set again with ttl 0, the reads, and the clock.                     *)
ExpireSetArgs ==
  { << <<99>>, <<9000, 66>>, U32(0, 1) >>,
    << <<99>>, EmptyValue, U32Zero >>,
    << <<100>>, <<1, 65>>, U32Zero >>,
    << <<97>>, <<9000, 66>>, U32Zero >> }

NextExpire ==
  \/ \E a \in ExpireSetArgs : nops < MaxExpireOps /\ Set(a[1], a[2], a[3]) /\ UNCHANGED <<daemon_vars, thread_vars, last2>>
  \/ \E k \in Keys, c \in DstCaps : nops < MaxExpireOps /\ GetInto(k, c) /\ UNCHANGED <<daemon_vars, thread_vars, last2>>
  \/ \E k \in Keys : nops < MaxExpireOps /\ Get(k) /\ UNCHANGED <<daemon_vars, thread_vars, last2>>
  \/ nops < MaxExpireOps /\ Tick /\ UNCHANGED <<daemon_vars, thread_vars, last2>>

SpecExpire == Init /\ [][NextExpire]_vars

(* The hinotetsu3.c engine when the allocation of a larger table may fail. *)

\* hinotetsu_set_nolock(db, key, klen, value, vlen, ttl_seconds); the mmap or
\* malloc of shard_start_resize, if the call reaches it, returns a table iff
\* nt_ok.
SetAlloc(key, val, ttl, nt_ok) ==
  /\ Healthy
  /\ nops' = nops + 1
  /\ LET h == fnv1a64(key)
         i == shard_id_for(h)
     IN  \E r \in { set_internal_with(shards[i], h, key, val, ttl, clock, nt_ok) } :
           /\ shards' = [shards EXCEPT ![i] = r.s]
           /\ mig' = MigAfter(i, r.s)
           /\ last' = Returned(r.s, LastOf("set", key, r.ret, EmptyValue))
           /\ hist' = HistAfterSet(shards[i], i, key, val, ttl,
                                   r.ret = HINOTETSU_OK /\ r.s.fault = "none")
  /\ UNCHANGED <<shards2, clock>>

AllocSetArgs ==
  { << <<99>>, <<1, 65>>, U32Zero >>,
    << <<100>>, <<1, 65>>, U32Zero >>,
    << <<97>>, <<9000, 66>>, U32Zero >> }

NextAlloc ==
  \/ \E a \in AllocSetArgs, nt_ok \in BOOLEAN :
       nops < MaxAllocOps /\ SetAlloc(a[1], a[2], a[3], nt_ok) /\ UNCHANGED <<daemon_vars, thread_vars, last2>>
  \/ \E k \in Keys : nops < MaxAllocOps /\ Get(k) /\ UNCHANGED <<daemon_vars, thread_vars, last2>>
  \/ \E k \in Keys : nops < MaxAllocOps /\ Delete(k) /\ UNCHANGED <<daemon_vars, thread_vars, last2>>

SpecAlloc == Init /\ [][NextAlloc]_vars

(* The two engines side by side: each call is made on the hinotetsu3.c      *)
(* engine and on the hinotetsu2.c engine with the same arguments at the     *)
(* same reading of the clock.                                               *)
BothSetArgs ==
  { << <<99>>, <<1, 65>>, U32Zero >>,
    << <<99>>, <<2, 66>>, U32(0, MaxTicks) >>,
    << <<100>>, <<1, 65>>, U32Zero >>,
    << <<97>>, <<1, 65>>, U32Zero >> }

\* last2 after a call that returned ret3 on hinotetsu3.c and r2 on hinotetsu2.c
Last2After(ret3, r2, out2) ==
  Last2Of(r2, out2,
          last2.nomem \/ ret3 = HINOTETSU_ERR_NOMEM \/ r2 = HINOTETSU_ERR_NOMEM)

\* hinotetsu_set_nolock of both engines
BothSet(key, val, ttl) ==
  /\ Healthy
  /\ nops' = nops + 1
  /\ LET h == fnv1a64(key)
         i == shard_id_for(h)
     IN  \E r \in { set_internal(shards[i], h, key, val, ttl, clock) },
            r2 \in { v2_set_internal(shards2[i], h, key, val, ttl, clock) } :
           /\ shards' = [shards EXCEPT ![i] = r.s]
           /\ mig' = MigAfter(i, r.s)
           /\ shards2' = [shards2 EXCEPT ![i] = r2.s]
           /\ last' = Returned(r.s, LastOf("set", key, r.ret, EmptyValue))
           /\ last2' = Last2After(r.ret, r2.ret, EmptyValue)
           /\ hist' = HistAfterSet(shards[i], i, key, val, ttl,
                                   r.ret = HINOTETSU_OK /\ r.s.fault = "none")
  /\ UNCHANGED clock

\* hinotetsu_get_into_nolock of both engines
BothGetInto(key, dst_cap) ==
  /\ Healthy
  /\ nops' = nops + 1
  /\ LET h == fnv1a64(key)
         i == shard_id_for(h)
     IN  \E r \in { get_into_internal(shards[i], h, key, dst_cap, clock) },
            r2 \in { v2_get_into_internal(shards2[i], h, key, dst_cap, clock) } :
           /\ shards' = [shards EXCEPT ![i] = r.s]
           /\ mig' = MigAfter(i, r.s)
           /\ shards2' = [shards2 EXCEPT ![i] = r2.s]
           /\ last' = Returned(r.s, LastOf("get_into", key, r.ret, r.out))
           /\ last2' = Last2After(r.ret, r2.ret, r2.out)
  /\ UNCHANGED <<clock, hist>>

\* hinotetsu_delete_nolock of both engines
BothDelete(key) ==
  /\ Healthy
  /\ nops' = nops + 1
  /\ LET h == fnv1a64(key)
         i == shard_id_for(h)
     IN  \E r \in { delete_internal(shards[i], h, key, clock) },
            r2 \in { v2_delete_internal(shards2[i], h, key) } :
           /\ shards' = [shards EXCEPT ![i] = r.s]
           /\ mig' = MigAfter(i, r.s)
           /\ shards2' = [shards2 EXCEPT ![i] = r2.s]
           /\ last' = Returned(r.s, LastOf("delete", key, r.ret, EmptyValue))
           /\ last2' = Last2After(r.ret, r2.ret, EmptyValue)
           /\ hist' = HistAfterDelete(key, r.ret = HINOTETSU_OK /\ r.s.fault = "none")
  /\ UNCHANGED clock

\* hinotetsu_flush_nolock of both engines
BothFlush ==
  /\ Healthy
  /\ nops' = nops + 1
  /\ shards' = [i \in ShardIds |-> shard_flush(shards[i])]
  /\ mig' = [i \in ShardIds |-> 0]
  /\ shards2' = [i \in ShardIds |-> v2_shard_flush(shards2[i])]
  /\ last' = [LastOf("flush", NoKey, HINOTETSU_OK, EmptyValue)
                EXCEPT !.aux = hinotetsu_stats(shards).resize_in_progress]
  /\ last2' = Last2After(HINOTETSU_OK, HINOTETSU_OK, EmptyValue)
  /\ hist' = [k \in Keys |->
                IF hist[k].st = "none" THEN hist[k]
                ELSE [hist[k] EXCEPT !.st = "flushed", !.dirty = FALSE, !.pre = FALSE]]
  /\ UNCHANGED clock

NextBoth ==
  \/ \E a \in BothSetArgs : nops < MaxBothOps /\ BothSet(a[1], a[2], a[3]) /\ UNCHANGED <<daemon_vars, thread_vars>>
  \/ \E k \in Keys, c \in DstCaps : nops < MaxBothOps /\ BothGetInto(k, c) /\ UNCHANGED <<daemon_vars, thread_vars>>
  \/ \E k \in Keys : nops < MaxBothOps /\ BothDelete(k) /\ UNCHANGED <<daemon_vars, thread_vars>>
  \/ nops < MaxBothOps /\ BothFlush /\ UNCHANGED <<daemon_vars, thread_vars>>
  \/ nops < MaxBothOps /\ Tick /\ UNCHANGED <<daemon_vars, thread_vars, last2>>

SpecBoth == Init /\ [][NextBoth]_vars

(* The client of the one connection sends one of the Streams; the network   *)
(* delivers it to read_cb in pieces of any size, may end the stream or      *)
(* fail at any point, and completes each uv_write some time after the call. *)
(* A write takes the bytes from the buffer it was given either at the call  *)
(* or at any time until it completes, so it sends the bytes the buffer held *)
(* at the call or the bytes it holds at completion.                         *)
Streams ==
  { <<115, 101, 116, 32, 99, 32, 48, 32, 48, 32, 50, 13, 10, 13, 10, 13, 10, 103, 101, 116, 32, 99, 13, 10>>,
    <<115, 101, 116, 32, 100, 32, 48, 32, 48, 32, 49, 13, 10, 0, 13, 10, 103, 101, 116, 32, 100, 13, 10>>,
    <<115, 101, 116, 32, 100, 32, 48, 32, 48, 32, 49, 13, 10, 65, 13, 10, 100, 101, 108, 101, 116, 101, 32, 100, 13, 10>>,
    <<103, 101, 116, 32, 99, 13, 10, 103, 101, 116, 32, 100, 13, 10, 103, 101, 116, 32, 97, 13, 10>>,
    <<98, 111, 103, 117, 115, 13, 10, 103, 101, 116, 13, 10, 103, 101, 116, 32, 99, 13, 10>>,
    <<103, 101, 116, 32, 99, 32, 100, 13, 10, 115, 101, 116, 32, 99, 32, 48, 32, 48, 13, 10, 103, 101, 116, 32, 99, 13, 10>>,
    <<115, 116, 97, 116, 115, 32, 120, 13, 10, 102, 108, 117, 115, 104, 95, 97, 108, 108, 32, 48, 13, 10, 103, 101, 116, 32, 99, 13, 10>>,
    <<113, 117, 105, 116, 32, 120, 13, 10, 103, 101, 116, 32, 99, 13, 10>>,
    <<103, 101, 116, 32, 99, 99, 99, 99, 99, 99, 99, 99, 99, 99, 99, 99, 99, 99, 99, 99, 99, 99, 99, 13, 10, 103, 101, 116, 32, 99, 13, 10>>,
    <<115, 101, 116, 32, 99, 32, 48, 32, 48, 32, 51, 13, 10, 103, 101, 116, 32, 99, 13, 10>>,
    <<115, 101, 116, 32, 99, 32, 48, 32, 48, 32, 45, 49, 13, 10, 103, 101, 116, 32, 99, 13, 10>>,
    <<115, 101, 116, 32, 99, 32, 48, 32, 48, 32, 50, 49, 52, 55, 52, 56, 51, 54, 52, 56, 13, 10, 103, 101, 116, 32, 99, 13, 10>>,
    <<115, 101, 116, 32, 99, 99, 32, 48, 32, 48, 32, 49, 13, 10, 65, 13, 10, 103, 101, 116, 32, 99, 99, 100, 13, 10>>,
    <<115, 101, 116, 32, 99, 99, 32, 48, 32, 48, 32, 49, 13, 10, 65, 13, 10, 100, 101, 108, 101, 116, 101, 32, 99, 99, 100, 13, 10>>,
    <<115, 101, 116, 32, 99, 99, 100, 32, 48, 32, 48, 32, 49, 13, 10, 66, 13, 10, 103, 101, 116, 32, 99, 99, 13, 10>>,
    <<115, 101, 116, 32, 99, 32, 48, 32, 45, 49, 32, 49, 13, 10, 65, 13, 10, 115, 116, 97, 116, 115, 13, 10>>,
    <<102, 108, 117, 115, 104, 95, 97, 108, 108, 13, 10, 103, 101, 116, 32, 99, 13, 10, 113, 117, 105, 116, 13, 10>>,
    <<103, 101, 116, 32, 99, 13, 10, 113, 117, 105, 116, 13, 10, 115, 101, 116, 32, 99, 32, 48, 32, 48, 32, 49, 13, 10, 65, 13, 10>> }

\* The state the callbacks work on, from the variables.
\* wr_ok: the uv_write of conn_flush_output, if the callback calls it, returns 0.
DState(wr_ok) ==
  [c |-> conn, db |-> shards2, get_buf_cap |-> gbuf, now |-> clock,
   ret |-> HINOTETSU_OK, out |-> EmptyValue, need |-> 0, wr_ok |-> wr_ok,
   resps |-> wire.resps, calls |-> wire.calls, eaten |-> wire.eaten, log |-> wire.log,
   closes |-> wire.closes]

\* The variables after a callback that led to d; todo and sock are what is
\* left of the stream and what the socket has been handed.
Becomes(d, todo, sock) ==
  /\ conn' = d.c
  /\ shards2' = d.db
  /\ gbuf' = d.get_buf_cap
  /\ wire' = [wire EXCEPT !.todo = todo, !.sock = sock, !.resps = d.resps,
                          !.calls = d.calls, !.eaten = d.eaten, !.log = d.log,
                          !.closes = d.closes]
  /\ UNCHANGED engine_vars

\* uv_close on a connection with a write under way: the write is cancelled
\* and write_cb runs with a negative status before the Conn is freed.
uv_close(d) == IF d.c.closing # 0 /\ d.c.writing # 0 THEN write_cb(d, 0 - 1) ELSE d

\* What a write that is cancelled has handed to the socket: all of its
\* bytes, taken at the call, or none.
CloseSends(c) == IF c.closing # 0 /\ c.writing # 0 THEN { << >>, c.req.snap } ELSE { << >> }

\* on_new_conn: a client connects and will send stream.
Accept(stream) ==
  /\ ~conn.open
  /\ conn' = on_new_conn
  /\ wire' = [wire EXCEPT !.stream = stream, !.todo = stream]
  /\ UNCHANGED <<engine_vars, shards2, gbuf>>

\* read_cb with the next n bytes of the stream.
Read(n) ==
  /\ conn.open /\ conn.closing = 0 /\ Healthy
  /\ n \in 1 .. Len(wire.todo)
  /\ \E wr_ok \in BOOLEAN :
       \E d \in { read_cb(DState(wr_ok), SubSeq(wire.todo, 1, n)) } :
         \E sent \in CloseSends(d.c) :
           Becomes(uv_close(d), SubSeq(wire.todo, n + 1, Len(wire.todo)), wire.sock \o sent)

\* read_cb with nread < 0, and the uv_close it calls: a write under way is
\* cancelled, write_cb runs with a negative status, and the Conn is freed.
ReadEof ==
  /\ conn.open /\ conn.closing = 0
  /\ \E d \in { read_cb_eof(DState(TRUE)) } :
       \E sent \in CloseSends(d.c) : Becomes(uv_close(d), << >>, wire.sock \o sent)

\* The bytes the write under way may hand to the socket.
WriteSends(c) ==
  { c.req.snap,
    IF c.req.moved THEN [i \in 1 .. c.req.len |-> GarbageByte]
    ELSE BufRead(c.outbuf[c.req.idx + 1], c.req.len) }

\* The write under way completes and write_cb runs with status 0.
WriteDone ==
  /\ conn.open /\ conn.writing # 0 /\ conn.closing = 0
  /\ \E sent \in WriteSends(conn) :
       \E wr_ok \in BOOLEAN :
         \E d \in { write_cb(DState(wr_ok), 0) } : Becomes(d, wire.todo, wire.sock \o sent)

\* The write under way fails and write_cb runs with a negative status.
WriteFail ==
  /\ conn.open /\ conn.writing # 0 /\ conn.closing = 0
  /\ \E d \in { write_cb(DState(TRUE), 0 - 1) } : Becomes(d, wire.todo, wire.sock)

NextD ==
  \/ \E s \in Streams : Accept(s)
  \/ \E n \in 1 .. Len(wire.todo) : Read(n)
  \/ ReadEof
  \/ WriteDone
  \/ WriteFail

SpecD == Init /\ [][NextD]_vars

(* ---------------- the locked API of hinotetsu3.c, threads --------------- *)

(* Threads call hinotetsu_set and hinotetsu_get_into, as thread_worker of   *)
(* test_stress.c does.  A call takes the pthread rwlock of the shard of its *)
(* key: hinotetsu_set the write lock, hinotetsu_get_into the read lock.     *)
(* The holder of the write lock is alone in the shard, so the body of a set *)
(* is one step.  Holders of the read lock run get_into_internal side by     *)
(* side; its steps are the test of s->new_tab, the while loop of            *)
(* shard_migrate_batch, the promotion that ends shard_migrate_batch, and    *)
(* the search with the copy of the value.                                   *)

Threads == 1 .. NumThreads

\* The value thread t writes: t bytes of the t-th capital letter.
ThreadValue(t) == <<t, 64 + t>>

\* The keys the threads work on.
ThreadKeys == { <<99>>, <<100>>, <<97>> }

\* dst_cap of the callers of hinotetsu_get_into.
ThreadDstCap == 128

\* The while loop of shard_migrate_batch run by a thread that finds
\* s->new_tab NULL because another holder of the read lock has promoted it
\* in the meantime: the first live entry it meets is handed to table_insert
\* with a null table of capacity 0, which writes through the null pointer.
RECURSIVE migrate_loop_gone(_, _)
migrate_loop_gone(s, now) ==
  IF ~(s.migrate_pos < s.cap) THEN s
  ELSE LET e  == Slot(s.tab, s.migrate_pos)
           s1 == [s EXCEPT !.migrate_pos = @ + 1]
       IN  IF e = NULL \/ e = TOMBSTONE_PTR THEN migrate_loop_gone(s1, now)
           ELSE IF s.ent[e].deleted # 0 \/ is_expired(s.ent[e], now)
                THEN migrate_loop_gone(s1, now)
                ELSE [s1 EXCEPT !.fault = "wild"]

\* The while loop of shard_migrate_batch as a holder of the read lock runs it.
reader_loop(s, now) ==
  IF s.new_tab = NoTable THEN migrate_loop_gone(s, now) ELSE migrate_loop(s, now, 0)

\* The promotion at the end of shard_migrate_batch as a holder of the read
\* lock runs it.  With s->new_tab NULL it frees the table and leaves
\* s->tab NULL with capacity 0.
reader_promote(s) ==
  IF s.migrate_pos >= s.cap /\ s.fault = "none" /\ s.new_tab = NoTable
  THEN [s EXCEPT !.fault = "wild"]
  ELSE migrate_promote(s)

\* A thread that is in no call, with the results of its latest call.
ThreadIdle(op, key, ret, out) ==
  [pc |-> "idle", op |-> op, key |-> key, ret |-> ret, out |-> out, len |-> 0]

\* A thread inside a call.
ThreadAt(pc, op, key) ==
  [pc |-> pc, op |-> op, key |-> key, ret |-> HINOTETSU_OK, out |-> EmptyValue, len |-> 0]

\* hinotetsu_set up to pthread_rwlock_wrlock
T_SetLock(t, key) ==
  /\ Healthy
  /\ thr[t].pc = "idle"
  /\ rw[ShardOf(key)].writer = 0 /\ rw[ShardOf(key)].readers = {}
  /\ rw' = [rw EXCEPT ![ShardOf(key)].writer = t]
  /\ thr' = [thr EXCEPT ![t] = ThreadAt("set", "set", key)]
  /\ nops' = nops + 1
  /\ UNCHANGED <<shards, shards2, clock, last, last2, mig, hist, written, daemon_vars, asked>>

\* hinotetsu_set: set_internal and pthread_rwlock_unlock
T_SetBody(t) ==
  /\ Healthy
  /\ thr[t].pc = "set"
  /\ LET key == thr[t].key
         i   == ShardOf(key)
     IN  \E r \in { set_internal(shards[i], fnv1a64(key), key, ThreadValue(t), U32Zero, clock) } :
           /\ shards' = [shards EXCEPT ![i] = r.s]
           /\ thr' = [thr EXCEPT ![t] = ThreadIdle("set", key, r.ret, EmptyValue)]
           /\ written' = [written EXCEPT ![key] =
                            IF r.ret = HINOTETSU_OK THEN @ \cup {ThreadValue(t)} ELSE @]
           /\ rw' = [rw EXCEPT ![i].writer = 0]
  /\ UNCHANGED <<shards2, clock, last, last2, mig, hist, nops, daemon_vars, asked>>

\* hinotetsu_get_into up to pthread_rwlock_rdlock
T_GetLock(t, key) ==
  /\ Healthy
  /\ thr[t].pc = "idle"
  /\ rw[ShardOf(key)].writer = 0
  /\ rw' = [rw EXCEPT ![ShardOf(key)].readers = @ \cup {t}]
  /\ thr' = [thr EXCEPT ![t] = ThreadAt("get_enter", "get", key)]
  /\ nops' = nops + 1
  /\ UNCHANGED <<shards, shards2, clock, last, last2, mig, hist, written, daemon_vars, asked>>

\* get_into_internal: if (s->new_tab) shard_migrate_batch(s), up to the loop
T_GetEnter(t) ==
  /\ Healthy
  /\ thr[t].pc = "get_enter"
  /\ thr' = [thr EXCEPT ![t].pc =
               IF shards[ShardOf(thr[t].key)].new_tab # NoTable THEN "get_loop"
               ELSE "get_search"]
  /\ UNCHANGED <<shards, shards2, clock, last, last2, mig, hist, nops, rw, written, daemon_vars, asked>>

\* shard_migrate_batch: the while loop
T_GetLoop(t) ==
  /\ Healthy
  /\ thr[t].pc = "get_loop"
  /\ shards' = [shards EXCEPT ![ShardOf(thr[t].key)] = reader_loop(@, clock)]
  /\ thr' = [thr EXCEPT ![t].pc = "get_promote"]
  /\ UNCHANGED <<shards2, clock, last, last2, mig, hist, nops, rw, written, daemon_vars, asked>>

\* shard_migrate_batch: the promotion
T_GetPromote(t) ==
  /\ Healthy
  /\ thr[t].pc = "get_promote"
  /\ shards' = [shards EXCEPT ![ShardOf(thr[t].key)] = reader_promote(@)]
  /\ thr' = [thr EXCEPT ![t].pc = "get_search"]
  /\ UNCHANGED <<shards2, clock, last, last2, mig, hist, nops, rw, written, daemon_vars, asked>>

\* get_into_internal: the search, the counters and the copy; then
\* pthread_rwlock_unlock
T_GetSearch(t) ==
  /\ Healthy
  /\ thr[t].pc = "get_search"
  /\ LET key == thr[t].key
         i   == ShardOf(key)
     IN  \E r \in { get_lookup(shards[i], fnv1a64(key), key, ThreadDstCap, clock) } :
           /\ shards' = [shards EXCEPT ![i] = r.s]
           /\ thr' = [thr EXCEPT ![t] = ThreadIdle("get", key, r.ret, r.out)]
           /\ rw' = [rw EXCEPT ![i].readers = @ \ {t}]
  /\ UNCHANGED <<shards2, clock, last, last2, mig, hist, nops, written, daemon_vars, asked>>

NextT ==
  \/ \E t \in Threads, k \in ThreadKeys : nops < MaxThreadOps /\ T_SetLock(t, k)
  \/ \E t \in Threads : T_SetBody(t)
  \/ \E t \in Threads, k \in ThreadKeys : nops < MaxThreadOps /\ T_GetLock(t, k)
  \/ \E t \in Threads : T_GetEnter(t)
  \/ \E t \in Threads : T_GetLoop(t)
  \/ \E t \in Threads : T_GetPromote(t)
  \/ \E t \in Threads : T_GetSearch(t)

SpecT == Init /\ [][NextT]_vars

(* ------------- the locked API of hinotetsu3.c, hinotetsu_get ------------ *)

(* Threads call hinotetsu_set and hinotetsu_get.  hinotetsu_get takes the   *)
(* read lock, runs get_into_internal with its stack buffer and unlocks;     *)
(* when the value did not fit it allocates len bytes, takes the read lock   *)
(* again and runs get_into_internal with that buffer.  Between the two      *)
(* the lock is free.  len is the local of that name, kept in thr[t].len.    *)

\* The values the threads write: 9000 bytes 'B' and 9001 bytes 'C', both
\* longer than the stack buffer of hinotetsu_get.
GetValues == { <<9000, 66>>, <<9001, 67>> }

\* The keys the callers of hinotetsu_get work on: "c" and "a", which share
\* the home slot 0 of a table of 2 slots.
GetKeys == { <<99>>, <<97>> }

\* hinotetsu_set: set_internal with the value val, and pthread_rwlock_unlock
G_SetBody(t, val) ==
  /\ Healthy
  /\ thr[t].pc = "set"
  /\ LET key == thr[t].key
         i   == ShardOf(key)
     IN  \E r \in { set_internal(shards[i], fnv1a64(key), key, val, U32Zero, clock) } :
           /\ shards' = [shards EXCEPT ![i] = r.s]
           /\ thr' = [thr EXCEPT ![t] = ThreadIdle("set", key, r.ret, EmptyValue)]
           /\ written' = [written EXCEPT ![key] =
                            IF r.ret = HINOTETSU_OK THEN @ \cup {val} ELSE @]
           /\ rw' = [rw EXCEPT ![i].writer = 0]
  /\ UNCHANGED <<shards2, clock, last, last2, mig, hist, nops, daemon_vars, asked>>

\* hinotetsu_get up to the first pthread_rwlock_rdlock
G_GetLock(t, key) ==
  /\ Healthy
  /\ thr[t].pc = "idle"
  /\ rw[ShardOf(key)].writer = 0
  /\ rw' = [rw EXCEPT ![ShardOf(key)].readers = @ \cup {t}]
  /\ thr' = [thr EXCEPT ![t] = ThreadAt("get_enter", "get1", key)]
  /\ nops' = nops + 1
  /\ UNCHANGED <<shards, shards2, clock, last, last2, mig, hist, written, daemon_vars, asked>>

\* What hinotetsu_get does with the result r of the call with the stack
\* buffer, malloc succeeding or not: the thread as it goes on.
get_first(key, r, malloc_ok) ==
  IF r.ret = HINOTETSU_ERR_TOOSMALL
  THEN IF malloc_ok
       THEN [ThreadAt("get_relock", "get2", key) EXCEPT !.len = r.out_vlen]
       ELSE ThreadIdle("get_copy", key, HINOTETSU_ERR_NOMEM, EmptyValue)
  ELSE IF r.ret # HINOTETSU_OK THEN ThreadIdle("get_copy", key, r.ret, EmptyValue)
  ELSE IF malloc_ok THEN ThreadIdle("get_copy", key, HINOTETSU_OK, r.out)
  ELSE ThreadIdle("get_copy", key, HINOTETSU_ERR_NOMEM, EmptyValue)

\* hinotetsu_get: the search and the copy of get_into_internal with the
\* stack buffer, pthread_rwlock_unlock, and the malloc that follows.
G_GetFirst(t) ==
  /\ Healthy
  /\ thr[t].pc = "get_search" /\ thr[t].op = "get1"
  /\ LET key == thr[t].key
         i   == ShardOf(key)
     IN  \E r \in { get_lookup(shards[i], fnv1a64(key), key, GetTmpSize, clock) } :
           \E malloc_ok \in BOOLEAN :
             /\ shards' = [shards EXCEPT ![i] = r.s]
             /\ thr' = [thr EXCEPT ![t] = get_first(key, r, malloc_ok)]
             /\ rw' = [rw EXCEPT ![i].readers = @ \ {t}]
  /\ UNCHANGED <<shards2, clock, last, last2, mig, hist, nops, written, daemon_vars, asked>>

\* hinotetsu_get: the second pthread_rwlock_rdlock
G_GetRelock(t) ==
  /\ Healthy
  /\ thr[t].pc = "get_relock"
  /\ rw[ShardOf(thr[t].key)].writer = 0
  /\ rw' = [rw EXCEPT ![ShardOf(thr[t].key)].readers = @ \cup {t}]
  /\ thr' = [thr EXCEPT ![t].pc = "get_enter"]
  /\ UNCHANGED <<shards, shards2, clock, last, last2, mig, hist, nops, written, daemon_vars, asked>>

\* hinotetsu_get: the search and the copy of get_into_internal with the
\* buffer of len bytes, pthread_rwlock_unlock, and the return.
G_GetSecond(t) ==
  /\ Healthy
  /\ thr[t].pc = "get_search" /\ thr[t].op = "get2"
  /\ LET key == thr[t].key
         i   == ShardOf(key)
     IN  \E r \in { get_lookup(shards[i], fnv1a64(key), key, thr[t].len, clock) } :
           /\ shards' = [shards EXCEPT ![i] = r.s]
           /\ thr' = [thr EXCEPT ![t] = ThreadIdle("get_copy", key, r.ret, r.out)]
           /\ rw' = [rw EXCEPT ![i].readers = @ \ {t}]
  /\ UNCHANGED <<shards2, clock, last, last2, mig, hist, nops, written, daemon_vars, asked>>

NextG ==
  \/ \E t \in Threads, k \in GetKeys : nops < MaxThreadOps /\ T_SetLock(t, k)
  \/ \E t \in Threads, v \in GetValues : G_SetBody(t, v)
  \/ \E t \in Threads, k \in GetKeys : nops < MaxThreadOps /\ G_GetLock(t, k)
  \/ \E t \in Threads : T_GetEnter(t)
  \/ \E t \in Threads : T_GetLoop(t)
  \/ \E t \in Threads : T_GetPromote(t)
  \/ \E t \in Threads : G_GetFirst(t)
  \/ \E t \in Threads : G_GetRelock(t)
  \/ \E t \in Threads : G_GetSecond(t)

SpecG == Init /\ [][NextG]_vars

(* -------------------------- the default build ------------------------- *)

(* hinotetsu_open(0) in a build without -D options: 64 MiB over 64 shards, *)
(* tables of 16384 slots, slab classes of 64 bytes to 4 KiB.  The shards   *)
(* are opened alike; the calls of a run go to one of them.                 *)

\* pool_size_bytes of hinotetsu_open when it is given 0.
DefaultPoolBytes == 67108864

DefaultShards == 64

DefaultInitCap == 16384

DefaultMinShift == 6

DefaultMaxShift == 12

InitDefault ==
  /\ shards = [i \in ShardIds |->
                shard_open_with(i, DefaultPoolBytes, DefaultShards, DefaultInitCap,
                                DefaultMinShift, DefaultMaxShift)]
  /\ InitOthers

\* The sets of a run on the default build: fresh keys, values of 1, 100 and
\* 4096 bytes.
DefaultSetArgs ==
  { << <<99>>, <<1, 65>>, U32Zero >>,
    << <<100>>, <<100, 66>>, U32Zero >>,
    << <<97>>, <<4096, 67>>, U32Zero >> }

NextDefault ==
  \/ \E a \in DefaultSetArgs : nops < MaxOps /\ Set(a[1], a[2], a[3]) /\ UNCHANGED <<daemon_vars, thread_vars, last2>>
  \/ \E k \in Keys : nops < MaxOps /\ Get(k) /\ UNCHANGED <<daemon_vars, thread_vars, last2>>
  \/ \E k \in Keys : nops < MaxOps /\ Delete(k) /\ UNCHANGED <<daemon_vars, thread_vars, last2>>
  \/ nops < MaxOps /\ Flush /\ UNCHANGED <<daemon_vars, thread_vars, last2>>

SpecDefault == InitDefault /\ [][NextDefault]_vars

(* --------------------------- class_for_size --------------------------- *)

\* 2^a as a size_t, a < 64.
SizeBit(a) == [j \in 1 .. 4 |-> IF j = 4 - (a \div 16) THEN Pow2(a % 16) ELSE 0]

\* 2^a - 1 as a size_t.
SizeBelowBit(a) ==
  [j \in 1 .. 4 |-> IF j > 4 - (a \div 16) THEN 65535
                    ELSE IF j = 4 - (a \div 16) THEN Pow2(a % 16) - 1 ELSE 0]

\* The sizes asked for: 0, and every power of two a size_t can hold with
\* its two neighbours.
SizeInputs ==
  {SizeZero} \cup { SizeBelowBit(a) : a \in 0 .. 63 } \cup { SizeBit(a) : a \in 0 .. 63 }
    \cup { [SizeBit(a) EXCEPT ![4] = @ + 1] : a \in 0 .. 63 }

\* The bounds of the slab classes: those of this build, and the defaults of
\* hinotetsu3.h (64 bytes to 4 KiB).
SlabBuilds ==
  { <<HINOTETSU_SLAB_MIN_SHIFT, HINOTETSU_SLAB_MAX_SHIFT>>, <<DefaultMinShift, DefaultMaxShift>> }

\* class_for_size(n) is called in a build with the class bounds b.
ClassForSize(n, b) ==
  /\ asked' = Asked(n, b[1], b[2])
  /\ UNCHANGED <<shards, shards2, clock, last, last2, mig, hist, nops, thr, rw, written,
                 daemon_vars>>

NextC == \E n \in SizeInputs, b \in SlabBuilds : ClassForSize(n, b)

SpecC == Init /\ [][NextC]_vars

(* ----------------------------- properties ----------------------------- *)

\* What hinotetsu_get(k) returns if it is called on the shards sh at time now.
GetOf(sh, key, now) ==
  hinotetsu_get(sh[ShardOf(key)], fnv1a64(key), key, now)

\* stats.count of the shards sh.
CountOf(sh) == hinotetsu_stats(sh).count

\* The last call was a get or get_into of key that returned.
GotKey(key) == last.op \in {"get", "get_into"} /\ last.key = key

\* The last call, a get or get_into, found the key: OK with the bytes, or
\* TOOSMALL with the length from get_into.
FoundIt == last.ret \in {HINOTETSU_OK, HINOTETSU_ERR_TOOSMALL}

\* The last call returned the value val: OK with exactly these bytes (or, for
\* a get_into whose buffer is shorter than the value, TOOSMALL).
ReturnedValue(val) ==
  \/ last.ret = HINOTETSU_OK /\ last.out = val
  \/ last.op = "get_into" /\ last.ret = HINOTETSU_ERR_TOOSMALL

\* C1: once set(k, v, 0) has returned OK, every later get(k) returns v, until
\* the next set(k), delete(k) or flush; a rehash in between changes nothing.
C1_GetReturnsLastSet ==
  \A k \in Keys :
    (GotKey(k) /\ hist[k].st = "set" /\ ~hist[k].dirty /\ hist[k].ttl = U32Zero)
      => ReturnedValue(hist[k].val)

\* C2: a get or get_into of k called right after a set(k, v, 0) that returned
\* OK returns OK with exactly the bytes v, the empty value included.
C2_ImmediateGetReturnsValue ==
  [][ (/\ last.op = "set"
       /\ last.ret = HINOTETSU_OK
       /\ hist[last.key].ttl = U32Zero
       /\ last'.op \in {"get", "get_into"}
       /\ last'.key = last.key)
      => \/ last'.ret = HINOTETSU_OK /\ last'.out = hist[last.key].val
         \/ last'.op = "get_into" /\ last'.ret = HINOTETSU_ERR_TOOSMALL ]_vars

\* C3: a get never finds a key that was never set, whose deadline has passed,
\* whose last completed set or delete was a delete that returned OK, or that
\* was last set before a flush.
C3_NoFoundAfterRemoval ==
  \A k \in Keys :
    (GotKey(k) /\ FoundIt)
      => (hist[k].st = "set" /\ ~DeadlinePassed(hist[k].at, hist[k].ttl, clock))

\* A get of a key whose deadline has passed has returned NOTFOUND while the
\* expired entry was still in the table.
C3_Witness ==
  /\ last.op = "get"
  /\ last.ret = HINOTETSU_ERR_NOTFOUND
  /\ hist[last.key].st = "set"
  /\ DeadlinePassed(hist[last.key].at, hist[last.key].ttl, clock)
  /\ \E i \in 1..Len(shards[ShardOf(last.key)].tab) :
       key_eq(shards[ShardOf(last.key)].ent, shards[ShardOf(last.key)].tab[i], last.key)

\* C4: every key that was present and live in a shard when a growth of the
\* shard started, and has not been deleted, flushed or expired since, is
\* found by get once the migration of the shard has completed.
C4_GrowthKeepsLiveEntries ==
  \A k \in Keys :
    (/\ Healthy
     /\ hist[k].pre
     /\ shards[ShardOf(k)].new_tab = NoTable)
      => GetOf(shards, k, clock).ret = HINOTETSU_OK

\* A growth from 4 to 8 slots, migrated over several calls, has completed
\* with three keys that were live when it started.
C4_Witness ==
  /\ shards[0].new_tab = NoTable
  /\ shards[0].cap = 8
  /\ \A k \in Keys : hist[k].pre

\* C5: when set(k, v2, t2) follows set(k, v1, t1) and both return OK, get(k)
\* returns v2 and stats.count is after the second set what it was before it.
C5_SecondSetKeepsCount ==
  [][ (/\ last.op = "set"
       /\ last.ret = HINOTETSU_OK
       /\ last'.op = "set"
       /\ last'.ret = HINOTETSU_OK
       /\ last'.key = last.key)
      => /\ CountOf(shards') = CountOf(shards)
         /\ GetOf(shards', last.key, clock').ret = HINOTETSU_OK
         /\ GetOf(shards', last.key, clock').out = hist'[last.key].val ]_vars

\* C6: delete of a key that is set and not expired returns OK and a get after
\* it returns NOTFOUND; a second delete returns NOTFOUND; delete of a key
\* that was never set returns NOTFOUND.
C6_DeleteResults ==
  [][ /\ (/\ last'.op = "delete"
          /\ hist[last'.key].st = "set"
          /\ ~hist[last'.key].dirty
          /\ ~DeadlinePassed(hist[last'.key].at, hist[last'.key].ttl, clock))
         => /\ last'.ret = HINOTETSU_OK
            /\ GetOf(shards', last'.key, clock').ret = HINOTETSU_ERR_NOTFOUND
      /\ (/\ last.op = "delete"
          /\ last.ret = HINOTETSU_OK
          /\ last'.op = "delete"
          /\ last'.key = last.key)
         => last'.ret = HINOTETSU_ERR_NOTFOUND
      /\ (last'.op = "delete" /\ hist[last'.key].st = "none")
         => last'.ret = HINOTETSU_ERR_NOTFOUND ]_vars

\* C7: the deadline of a key is the time of its most recent set that returned
\* OK plus the ttl of that set: with ttl > 0 a get finds the key at every
\* clock value below the deadline and returns NOTFOUND from the deadline on;
\* with ttl = 0 a get always finds it; a later set replaces the deadline.
C7_DeadlineOfLastSet ==
  \A k \in Keys :
    (GotKey(k) /\ hist[k].st = "set" /\ ~hist[k].dirty)
      => IF DeadlinePassed(hist[k].at, hist[k].ttl, clock)
         THEN last.ret = HINOTETSU_ERR_NOTFOUND
         ELSE ReturnedValue(hist[k].val)

\* C8: right after a flush stats.count is 0, and a get of any key set before
\* the flush (and not set again) returns NOTFOUND, whether or not a rehash
\* was under way when flush was called.
C8_FlushEmpties ==
  /\ last.op = "flush" => CountOf(shards) = 0
  /\ \A k \in Keys :
       (Healthy /\ hist[k].st = "flushed")
         => GetOf(shards, k, clock).ret = HINOTETSU_ERR_NOTFOUND

\* A flush was called while a rehash was under way, with two keys set.
C8_Witness ==
  /\ last.op = "flush"
  /\ last.aux > 0
  /\ Cardinality({k \in Keys : hist[k].st = "flushed"}) >= 2

\* C9: a set that returns NOMEM leaves stats.count and, for every key, the
\* result of a get as they were before the call.
C9_FailedSetChangesNothing ==
  [][ (last'.op = "set" /\ last'.ret = HINOTETSU_ERR_NOMEM)
      => /\ CountOf(shards') = CountOf(shards)
         /\ \A k \in Keys :
              /\ GetOf(shards', k, clock').ret = GetOf(shards, k, clock).ret
              /\ GetOf(shards', k, clock').out = GetOf(shards, k, clock).out ]_vars

\* C10: delete of a key whose entry is in the table and expired returns
\* NOTFOUND.
C10_DeleteExpiredNotFound ==
  [][ (/\ last'.op = "delete"
       /\ hist[last'.key].st = "set"
       /\ DeadlinePassed(hist[last'.key].at, hist[last'.key].ttl, clock))
      => last'.ret = HINOTETSU_ERR_NOTFOUND ]_vars

\* No allocation of the arena of s has failed since it was opened: every
\* Entry-plus-key taken from it belongs to an entry that was created.
NoAllocFailed(s, opened) ==
  s.pool_pos = opened.pool_pos + Cardinality(DOMAIN s.ent) * (EntrySize + 8)

\* C11: with sets of ttl 0, gets and deletes and no allocation failure,
\* stats.count is the number of distinct keys whose most recent set or
\* delete that returned OK was a set; it is 0 when they are all deleted.
C11_CountIsLiveKeys ==
  (/\ Healthy
   /\ \A i \in ShardIds : NoAllocFailed(shards[i], shard_open(i))
   /\ \A k \in Keys : ~hist[k].dirty /\ hist[k].ttl = U32Zero /\ hist[k].st # "flushed")
  => CountOf(shards) = Cardinality({k \in Keys : hist[k].st = "set"})

\* C12: a get or get_into adds one to exactly one of hits and misses, hits
\* when it found the key live and misses when it did not; a set or a delete
\* changes neither.
C12_OneCounterPerGet ==
  [][ /\ last'.op \in {"get", "get_into"}
         => /\ hinotetsu_stats(shards').hits
                 = hinotetsu_stats(shards).hits
                   + (IF last'.ret \in {HINOTETSU_OK, HINOTETSU_ERR_TOOSMALL} THEN 1 ELSE 0)
            /\ hinotetsu_stats(shards').misses
                 = hinotetsu_stats(shards).misses
                   + (IF last'.ret \in {HINOTETSU_OK, HINOTETSU_ERR_TOOSMALL} THEN 0 ELSE 1)
      /\ last'.op \in {"set", "delete"}
         => /\ hinotetsu_stats(shards').hits = hinotetsu_stats(shards).hits
            /\ hinotetsu_stats(shards').misses = hinotetsu_stats(shards).misses ]_vars


\* a is the beginning of b.
IsPrefix(a, b) == Len(a) <= Len(b) /\ SubSeq(b, 1, Len(a)) = a

\* C13: on a connection the bytes handed to the socket are the responses of
\* the daemon in the order it produced them: at every moment a beginning of
\* their concatenation, and all of it once no write is under way and no
\* response is waiting in a buffer.
C13_SocketIsResponses ==
  conn.open =>
    /\ IsPrefix(wire.sock, wire.resps)
    /\ (conn.closing = 0 /\ conn.writing = 0 /\ conn.out_len = 0) => wire.sock = wire.resps


\* The records of the data blocks the daemon has processed.
DataEvents == { i \in 1 .. Len(wire.log) : wire.log[i].kind = "data" }

\* The records of the command lines the daemon has processed.
LineEvents == { i \in 1 .. Len(wire.log) : wire.log[i].kind = "line" }

\* C14: the data block of a set with declared length n is the n + 2 bytes of
\* the stream that follow the command line, whatever they are: exactly they
\* are consumed, the engine is called once, with the first n of them as the
\* value, and holds them afterwards, the parser is back to reading commands,
\* and every command line processed later starts behind the block.
C14_DataBlockIsData ==
  \A i \in DataEvents :
    LET e == wire.log[i]
    IN  /\ i > 1 /\ wire.log[i - 1].kind = "line"
        /\ wire.log[i - 1].at + wire.log[i - 1].used = e.at
        /\ e.used = e.n + 2
        /\ e.bytes = SubSeq(wire.stream, e.at + 1, e.at + e.n + 2)
        /\ Len(e.calls) = 1
        /\ e.calls[1][1] = "set"
        /\ e.calls[1][3] = PackValue(SubSeq(wire.stream, e.at + 1, e.at + e.n))
        /\ e.calls[1][4] = HINOTETSU_OK => e.stored = e.calls[1][3]
        /\ e.pending = 0
        /\ \A j \in LineEvents : j > i => wire.log[j].at >= e.at + e.n + 2

\* A set of two bytes "\r\n" has been stored and the next command processed.
C14_Witness ==
  \E i \in DataEvents :
    /\ wire.log[i].n = 2
    /\ SubSeq(wire.log[i].bytes, 1, 2) = CRLF
    /\ wire.log[i].calls[1][4] = HINOTETSU_OK
    /\ i < Len(wire.log)
    /\ wire.log[i + 1].resp = Concat(<<ValueWord, <<99>>, ValueFlags, <<50>>, CRLF, CRLF, ValueEnd>>, 1)


\* The command lines of the Streams that are not a command of the protocol:
\* an unknown word, a missing or surplus argument, a key longer than MAX_KEY,
\* a bytes field that is no number in 0..MAX_SET_BYTES, a line longer than
\* MAX_LINE.
MalformedLines ==
  { <<98, 111, 103, 117, 115>>,
    <<103, 101, 116>>,
    <<103, 101, 116, 32, 99, 32, 100>>,
    <<115, 101, 116, 32, 99, 32, 48, 32, 48>>,
    <<115, 116, 97, 116, 115, 32, 120>>,
    <<102, 108, 117, 115, 104, 95, 97, 108, 108, 32, 48>>,
    <<113, 117, 105, 116, 32, 120>>,
    <<103, 101, 116, 32, 99, 99, 99, 99, 99, 99, 99, 99, 99, 99, 99, 99, 99, 99, 99, 99, 99, 99, 99>>,
    <<115, 101, 116, 32, 99, 32, 48, 32, 48, 32, 51>>,
    <<115, 101, 116, 32, 99, 32, 48, 32, 48, 32, 45, 49>>,
    <<115, 101, 116, 32, 99, 32, 48, 32, 48, 32, 50, 49, 52, 55, 52, 56, 51, 54, 52, 56>>,
    <<103, 101, 116, 32, 99, 99, 100>>,
    <<100, 101, 108, 101, 116, 101, 32, 99, 99, 100>>,
    <<115, 101, 116, 32, 99, 99, 100, 32, 48, 32, 48, 32, 49>> }

\* The error responses of the protocol.
ErrorResponses == { RespError, RespBadFormat, RespBadChunk, RespBadCommand }

\* The record after record i of the log, if any, is that of a command line
\* that starts where record i stopped.
NextIsLine(i) ==
  i < Len(wire.log) =>
    /\ wire.log[i + 1].kind = "line"
    /\ wire.log[i + 1].at = wire.log[i].at + wire.log[i].used

\* C15: a command line that is malformed or unknown gets exactly one ERROR or
\* CLIENT_ERROR response, leaves the closing flag clear, makes no call of the
\* engine, starts no data block, and the bytes after its "\r\n" are parsed
\* as the next command line.
C15_MalformedLine ==
  \A i \in LineEvents :
    wire.log[i].bytes \in MalformedLines =>
      /\ wire.log[i].resp \in ErrorResponses
      /\ wire.log[i].closing = 0
      /\ wire.log[i].calls = << >>
      /\ wire.log[i].pending = 0
      /\ wire.log[i].used = Len(wire.log[i].bytes) + 2
      /\ NextIsLine(i)


\* The set lines of the Streams whose bytes field is outside 0..MAX_SET_BYTES:
\* 3, -1 and 2^31.
OutOfRangeSetLines ==
  { <<115, 101, 116, 32, 99, 32, 48, 32, 48, 32, 51>>,
    <<115, 101, 116, 32, 99, 32, 48, 32, 48, 32, 45, 49>>,
    <<115, 101, 116, 32, 99, 32, 48, 32, 48, 32, 50, 49, 52, 55, 52, 56, 51, 54, 52, 56>> }

\* C16: a set line whose bytes field is outside 0..MAX_SET_BYTES is answered
\* with CLIENT_ERROR bad data chunk; no set is pending after it, nothing but
\* the line and its "\r\n" is consumed, the engine is not called, the
\* closing flag stays clear, and the line after it is processed as a command
\* (here a get of a key that is not stored, answered END).
C16_BytesOutOfRange ==
  \A i \in LineEvents :
    wire.log[i].bytes \in OutOfRangeSetLines =>
      /\ wire.log[i].resp = RespBadChunk
      /\ wire.log[i].pending = 0
      /\ wire.log[i].used = Len(wire.log[i].bytes) + 2
      /\ wire.log[i].calls = << >>
      /\ wire.log[i].closing = 0
      /\ NextIsLine(i)
      /\ i < Len(wire.log) => wire.log[i + 1].resp = RespEnd


\* The command lines of the Streams whose key token is longer than MAX_KEY.
LongKeyLines ==
  { <<103, 101, 116, 32, 99, 99, 100>>,
    <<100, 101, 108, 101, 116, 101, 32, 99, 99, 100>>,
    <<115, 101, 116, 32, 99, 99, 100, 32, 48, 32, 48, 32, 49>>,
    <<103, 101, 116, 32, 99, 99, 99, 99, 99, 99, 99, 99, 99, 99, 99, 99, 99, 99, 99, 99, 99, 99, 99>> }

\* The CLIENT_ERROR responses of the protocol.
ClientErrors == { RespBadFormat, RespBadChunk, RespBadCommand }

\* C17: a set, get or delete line whose key token is longer than MAX_KEY is
\* answered with a CLIENT_ERROR response and does not reach the engine: the
\* line makes no engine call and starts no data block, so nothing is stored,
\* read or deleted under the key or a prefix of it.
C17_LongKeyRejected ==
  \A i \in LineEvents :
    wire.log[i].bytes \in LongKeyLines =>
      /\ wire.log[i].resp \in ClientErrors
      /\ wire.log[i].calls = << >>
      /\ wire.log[i].pending = 0


\* C20: the engine set of a pending set is called only when the input buffer
\* holds the whole data block, bytes + 2; a step that finds a set pending
\* and processes no block (more bytes of it arrive, a write completes, the
\* connection closes) leaves it pending, the store unchanged and the
\* responses as they were; and once the closing flag is set (end of stream,
\* error, quit) no further line or block is processed.
C20_PendingSetNeedsBlock ==
  [][ /\ \A i \in 1 .. Len(wire'.log) :
            /\ wire'.log[i].kind = "data" => wire'.log[i].have >= wire'.log[i].n + 2
            /\ i < Len(wire'.log) => wire'.log[i].closing = 0
      /\ (conn.open /\ conn.pending_set = 1 /\ Len(wire'.log) = Len(wire.log))
            => /\ conn'.pending_set = 1
               /\ shards2' = shards2
               /\ wire'.resps = wire.resps
               /\ wire'.calls = wire.calls
      /\ (conn.open /\ conn.closing = 1)
            => shards2' = shards2 /\ wire'.resps = wire.resps ]_vars

\* The connection has closed with a part of a data block in the buffer.
C20_Witness ==
  /\ conn.open /\ conn.closing = 1 /\ conn.pending_set = 1
  /\ Len(conn.inbuf) > 0 /\ Len(conn.inbuf) < conn.pending_bytes + 2
  /\ wire.calls = << >> /\ wire.resps = << >>


\* The part of a shard that the locks protect: its tables, the migration
\* cursor, the occupancy counters and the free lists.
ShardCore(s) ==
  <<s.tab, s.cap, s.new_tab, s.new_cap, s.migrate_pos, s.used, s.new_used, s.count,
    s.freelist>>

\* C18: in the locked mode the tables, the migration cursor, the occupancy
\* counters and the free lists of a shard change only in a step of the
\* thread that holds the write lock of the shard; a step of a thread that
\* holds the read lock (a get) leaves them as they are.
C18_OnlyWriterModifies ==
  [][ \A i \in ShardIds :
        ShardCore(shards'[i]) # ShardCore(shards[i]) => rw[i].writer # 0 ]_vars

\* C19: with threads calling the locked set and get_into on the same keys,
\* every call returns: a set returns OK unless memory has run out, a
\* get_into returns NOTFOUND or OK with the value one of the sets of that
\* key has stored.
C19_ConcurrentSetGet ==
  /\ \A i \in ShardIds : shards[i].fault = "none"
  /\ \A t \in Threads :
       thr[t].pc = "idle" =>
         /\ thr[t].op = "set" => thr[t].ret \in {HINOTETSU_OK, HINOTETSU_ERR_NOMEM}
         /\ thr[t].op = "get" =>
               \/ thr[t].ret = HINOTETSU_ERR_NOTFOUND
               \/ thr[t].ret = HINOTETSU_OK /\ thr[t].out \in written[thr[t].key]


\* C21: run side by side on the same calls at the same clock values, with no
\* call refused for lack of memory, the hinotetsu2.c engine and the
\* hinotetsu3.c engine return the same result code and the same value for
\* every set, get_into, delete and flush.
C21_EnginesAgree ==
  ~last2.nomem =>
    /\ Healthy
    /\ last.op # "fault"
    /\ last.op \in {"set", "get_into", "delete", "flush"}
         => last.ret = last2.ret /\ last.out = last2.out


\* The blocks on the free list of class shift of s, from its head, following
\* at most n next pointers.
RECURSIVE FreeChain(_, _, _)
FreeChain(s, p, n) ==
  IF p = NULL \/ p = WILD_PTR \/ n = 0 THEN << >>
  ELSE <<p>> \o FreeChain(s, NodeNext(s.mem, p), n - 1)

FreeList(s, shift) == FreeChain(s, s.freelist[shift], Cardinality(DOMAIN s.mem) + 1)

\* The entry a get of key returns on s at time now, NULL when it finds none.
GetEntry(s, key, now) == lookup_both(s, fnv1a64(key), key, now).e

C23_DeletedIsMonotonic ==
  [][ \A i \in ShardIds :
        \A e \in DOMAIN shards[i].ent :
          (shards[i].ent[e].deleted = 1 /\ e \in DOMAIN shards'[i].ent)
            => shards'[i].ent[e].deleted = 1 ]_vars


\* The slots of tab that hold an entry of key that is neither deleted nor
\* expired.
LiveSlots(tab, ent, key, now) ==
  { i \in 1 .. Len(tab) :
      /\ key_eq(ent, tab[i], key)
      /\ ent[tab[i]].deleted = 0
      /\ ~is_expired(ent[tab[i]], now) }

\* The entries of key that are live in a slot of either table of s.
LiveEntries(s, key, now) ==
  { s.tab[i] : i \in LiveSlots(s.tab, s.ent, key, now) }
    \cup { s.new_tab[i] : i \in LiveSlots(s.new_tab, s.ent, key, now) }

\* The entries of key in a slot of either table of s that are not deleted.
KeptEntries(s, key) ==
  { e \in {s.tab[i] : i \in 1 .. Len(s.tab)} \cup {s.new_tab[i] : i \in 1 .. Len(s.new_tab)} :
      key_eq(s.ent, e, key) /\ s.ent[e].deleted = 0 }

\* C24: while a rehash is in progress, a lookup finds every key that is live
\* in either table, and finds it through new_tab when it is live there; a
\* set of a key that has no entry, or only a deleted one, puts the entry of
\* the key into new_tab;
\* after a delete no table holds a live entry of the key, and after a set
\* the live entries of the key in the two tables are one and the same.
C24_RehashLookups ==
  [][ \A i \in ShardIds :
        (shards'[i].new_tab # NoTable /\ shards'[i].fault = "none")
          => /\ \A k \in Keys :
                  LET l == lookup_both(shards'[i], fnv1a64(k), k, clock')
                  IN  /\ LiveEntries(shards'[i], k, clock') # {} => l.e # NULL
                      /\ LiveSlots(shards'[i].new_tab, shards'[i].ent, k, clock') # {}
                           => l.in_new
             /\ (/\ last'.op = "set" /\ last'.ret = HINOTETSU_OK
                 /\ ShardOf(last'.key) = i
                 /\ KeptEntries(shards[i], last'.key) = {})
                  => LiveSlots(shards'[i].new_tab, shards'[i].ent, last'.key, clock') # {}
             /\ (last'.op = "delete" /\ last'.ret = HINOTETSU_OK /\ ShardOf(last'.key) = i)
                  => LiveEntries(shards'[i], last'.key, clock') = {}
             /\ (last'.op = "set" /\ last'.ret = HINOTETSU_OK /\ ShardOf(last'.key) = i)
                  => Cardinality(LiveEntries(shards'[i], last'.key, clock')) = 1 ]_vars


\* The entries of key in a slot of either table of s.
EntriesOf(s, key) ==
  { e \in {s.tab[i] : i \in 1 .. Len(s.tab)} \cup {s.new_tab[i] : i \in 1 .. Len(s.new_tab)} :
      key_eq(s.ent, e, key) }

\* What a set that returned OK on a key with an entry has done to the shard,
\* s1 being the shard after the migration work the set starts with and s2
\* the shard after the set: no Entry was created, no slot of either table
\* and neither occupancy counter has changed, and an entry of the key has
\* the length and the expiry of the set.
UpdatedInPlace(s1, s2, key, val, ttl, now) ==
  /\ DOMAIN s2.ent = DOMAIN s1.ent
  /\ s2.tab = s1.tab /\ s2.new_tab = s1.new_tab
  /\ s2.used = s1.used /\ s2.new_used = s1.new_used
  /\ \E e \in EntriesOf(s1, key) :
       /\ s2.ent[e].vlen = val[1]
       /\ s2.ent[e].expire = ExpireFor(ttl, now)
       /\ s2.ent[e].deleted = 0

MigrateOps(cap) == (cap + HINOTETSU_MIGRATE_BATCH - 1) \div HINOTETSU_MIGRATE_BATCH

\* C26: a rehash is complete (new_tab promoted, no new_tab left) after at
\* most ceil(cap / MIGRATE_BATCH) set, get and delete calls on the shard,
\* the set that started it included, cap being the capacity of the table
\* that is migrated: while it is in progress fewer calls have been made.
C26_RehashCompletes ==
  \A i \in ShardIds :
    (shards[i].fault = "none" /\ shards[i].new_tab # NoTable)
      => mig[i] < MigrateOps(shards[i].cap)

\* The rehash of a table of 4 slots has been completed: after seven calls
\* the table has 8 slots, no new_tab is left and three keys are live.
C26_Witness ==
  /\ shards[0].new_tab = NoTable
  /\ shards[0].cap = 8
  /\ shards[0].count = 3
  /\ nops = 7


\* A rehash of the shard has started in the step from s to s2: s had no
\* new_tab, and s2 has one or has already promoted it.
RehashStarted(s, s2) ==
  /\ s.new_tab = NoTable
  /\ s2.new_tab # NoTable \/ s2.cap # s.cap

C28_FlushIsOpen ==
  last.op = "flush" =>
    \A i \in ShardIds :
      /\ shards[i].pool_pos = shard_open(i).pool_pos
      /\ shards[i].tab = EmptyTable(HINOTETSU_INIT_CAP)
      /\ shards[i].cap = HINOTETSU_INIT_CAP
      /\ shards[i].new_tab = NoTable
      /\ shards[i].used = 0 /\ shards[i].count = 0
      /\ shards[i].hits = 0 /\ shards[i].misses = 0
      /\ \A c \in SlabClasses : FreeList(shards[i], c) = FreeList(shard_open(i), c)


\* C29: while a uv_write is in flight the buffer it was given is neither
\* written into nor reallocated by conn_append_output, and the bytes
\* appended since the write was issued are in the other buffer.
C29_InFlightBufferUntouched ==
  (conn.open /\ conn.writing = 1) =>
    /\ BufRead(conn.outbuf[conn.req.idx + 1], conn.req.len) = conn.req.snap
    /\ ~conn.req.moved
    /\ BufRead(conn.outbuf[(1 - conn.req.idx) + 1], conn.out_len)
         = SubSeq(wire.resps, Len(wire.resps) - conn.out_len + 1, Len(wire.resps))


\* The response bytes appended since the write under way was issued.
AppendedMeanwhile == SubSeq(wire.resps, Len(wire.resps) - conn.out_len + 1, Len(wire.resps))

\* C30: when a write completes without error on a connection that is not
\* closing, and response bytes were appended while it was under way, write_cb
\* issues a further write that carries exactly those bytes; when none were
\* appended no write is issued.
C30_WriteCarriesAppended ==
  [][ (conn.open /\ conn.writing # 0 /\ conn.closing = 0
         /\ conn'.open /\ conn'.closing = 0 /\ wire'.todo = wire.todo)
      => IF conn.out_len > 0
         THEN /\ conn'.writing = 1
              /\ conn'.out_len = 0
              /\ conn'.req.len = conn.out_len
              /\ conn'.req.snap = AppendedMeanwhile
         ELSE conn'.writing = 0 ]_vars



\* C31: hinotetsu_get returns to its caller only HINOTETSU_OK with a value
\* that was written under the key, HINOTETSU_ERR_NOTFOUND or
\* HINOTETSU_ERR_NOMEM, never HINOTETSU_ERR_TOOSMALL, also when other
\* threads set the key between its two acquisitions of the lock.
C31_GetHidesTooSmall ==
  \A t \in Threads :
    (thr[t].pc = "idle" /\ thr[t].op = "get_copy" /\ Healthy) =>
      /\ thr[t].ret \in {HINOTETSU_OK, HINOTETSU_ERR_NOTFOUND, HINOTETSU_ERR_NOMEM}
      /\ thr[t].ret = HINOTETSU_OK => thr[t].out \in written[thr[t].key]



\* The entry set_internal finds for the key in the shard s1 its migration
\* work has left, NULL when it finds none.
SetExisting(s1, h, key) ==
  LET fn == IF s1.new_tab # NoTable
            THEN find_insert_slot(s1.new_tab, s1.new_cap, s1.ent, key, h)
            ELSE [idx |-> 0, found |-> 0, hang |-> FALSE]
      fo == find_insert_slot(s1.tab, s1.cap, s1.ent, key, h)
  IN  IF fn.hang \/ fo.hang THEN NULL
      ELSE IF fn.found = 1 THEN Slot(s1.new_tab, fn.idx)
      ELSE IF fo.found = 1 THEN Slot(s1.tab, fo.idx)
      ELSE NULL

\* The old buffer of an overwrite is pushed onto a free list: it has a slab
\* class.
PushesOld(s1, existing) ==
  s1.ent[existing].value # NULL /\ s1.ent[existing].vclass # VALUE_CLASS_BUMP

\* At the moment the overwrite of `existing' with val in the shard s1 has
\* pushed the old buffer onto the free list, the entry holds the new buffer.
InstalledBeforeFree(s1, al, existing, val) ==
  set_freed(al, existing, val).ent[existing].value = al.p

\* C32: in every overwrite a set can make in a reachable state, the new
\* buffer is in the entry when the old buffer is pushed onto the free list,
\* and the new buffer is not the block of the old one.
C32_InstallThenFree ==
  \A i \in ShardIds : \A a \in RehashSetArgs :
    \A s1 \in { shard_maybe_grow(shards[i], clock) } :
      \A existing \in { SetExisting(s1, fnv1a64(a[1]), a[1]) } :
        (Healthy /\ s1.fault = "none" /\ ShardOf(a[1]) = i
           /\ existing # NULL /\ existing # TOMBSTONE_PTR /\ PushesOld(s1, existing)) =>
          \A al \in { value_alloc(s1, a[2][1]) } :
            al.p # NULL =>
              /\ InstalledBeforeFree(s1, al, existing, a[2])
              /\ al.p # s1.ent[existing].value



\* The shard s as the migration batch that opens a get or a delete leaves it.
AfterBatch(s, now) == IF s.new_tab # NoTable THEN shard_migrate_batch(s, now) ELSE s

C34_FailedSetKeepsArena ==
  [][ (last'.op = "set" /\ nops' = nops + 1 /\ last'.ret = HINOTETSU_ERR_NOMEM) =>
        /\ \A i \in ShardIds : shards'[i].pool_pos = shards[i].pool_pos
        /\ hinotetsu_stats(shards').memory_used = hinotetsu_stats(shards).memory_used ]_vars



\* n <= 2^k for a size_t n and k < 32.
SizeLeqPow2(n, k) == n[1] = 0 /\ n[2] = 0 /\ U32Leq(U32OfSize(n), U32Pow2(k))

\* The classes between min_s and max_s whose blocks have room for n bytes.
RoomyClasses(n, min_s, max_s) == { k \in min_s .. max_s : SizeLeqPow2(n, k) }

\* C35: for every size n, class_for_size gives the smallest class between
\* MIN_SHIFT and MAX_SHIFT whose blocks hold n bytes, and BUMP when there is
\* none.
C35_SmallestRoomyClass ==
  LET roomy == RoomyClasses(asked.n, asked.min_s, asked.max_s)
  IN  IF roomy = {} THEN asked.class = VALUE_CLASS_BUMP
      ELSE asked.class \in roomy /\ \A k \in roomy : asked.class <= k



\* The engine has just been opened or flushed.
JustOpened == last.op \in {"open", "flush"}

\* C36: on the default build, right after open and right after flush every
\* slab class of every shard has a block on its free list and the arena has
\* room for an Entry and a key, and the set of a small value called next
\* returns OK.
C36_DefaultOpenServes ==
  [][ JustOpened =>
        /\ \A i \in ShardIds :
             /\ \A c \in shards[i].min_s .. shards[i].max_s : shards[i].freelist[c] # NULL
             /\ shards[i].pool_pos + EntrySize + 8 <= shards[i].pool_size
        /\ (last'.op = "set" /\ nops' = nops + 1) => last'.ret = HINOTETSU_OK ]_vars



\* What a get of the key would return on the shards sh: <<ret, value>>.
WouldGet(sh, key, now) ==
  LET r == hinotetsu_get(sh[ShardOf(key)], fnv1a64(key), key, now)
  IN  <<r.ret, r.out>>

\* C37: a get changes what no key maps to: a get of any key returns after it
\* what it would have returned in its place, so two gets of a key in a row,
\* in the same second, return the same result and the same value.
C37_GetChangesNoMapping ==
  [][ (last'.op \in {"get", "get_into"} /\ nops' = nops + 1) =>
        /\ \A k \in Keys : WouldGet(shards', k, clock) = WouldGet(shards, k, clock)
        /\ (last.op = last'.op /\ last.key = last'.key)
             => (last'.ret = last.ret /\ last'.out = last.out) ]_vars


\* The table has a slot that is NULL: every linear probe of it ends.
HasEmptySlot(tab) == \E j \in 1 .. Len(tab) : tab[j] = NULL

\* C38: every set, get and delete returns: in every state the table of each
\* shard, and the incoming table while a rehash is under way, has an empty
\* slot, and no call has been left in a probe loop.
C38_ProbedTablesHaveEmptySlot ==
  \A i \in ShardIds :
    /\ shards[i].fault # "hang"
    /\ HasEmptySlot(shards[i].tab)
    /\ shards[i].new_tab # NoTable => HasEmptySlot(shards[i].new_tab)


\* The last line the daemon has processed is the command quit.
QuitProcessed(w) ==
  /\ w.log # << >>
  /\ w.log[Len(w.log)].kind = "line"
  /\ w.log[Len(w.log)].bytes = CmdQuit

\* C39: a read that finds the connection with every earlier response on the
\* socket and whose batch of commands ends with quit leaves the responses of
\* all the commands before quit written to the socket.
C39_QuitAfterResponses ==
  [][ ( /\ conn.open /\ conn.closing = 0 /\ conn.writing = 0 /\ conn.out_len = 0
        /\ wire.sock = wire.resps
        /\ Len(wire'.log) > Len(wire.log)
        /\ QuitProcessed(wire') /\ conn'.closing # 0 )
      => wire'.sock = wire'.resps ]_vars


\* C40: uv_close is called at most once on a connection, whichever of quit,
\* the end of the stream or a read error, a uv_write that fails at the call
\* and a write that fails or is cancelled come together; and once closing
\* is set no later command of the batch is dispatched and the callback that
\* set it starts no write.
C40_ClosedOnce ==
  [][ /\ wire'.closes <= 1
      /\ (conn'.open /\ conn'.closing # 0) =>
           /\ wire'.closes = 1
           /\ conn'.writing = 0
           /\ conn'.req = conn.req
           /\ \A i \in 1 .. Len(wire'.log) - 1 : wire'.log[i].closing = 0 ]_vars

\* The connection was closed while a write was under way (the write was
\* started and the socket has none of its bytes) and with commands of the
\* batch left behind the quit.
C40_Witness ==
  /\ conn.open /\ conn.closing # 0 /\ wire.closes = 1
  /\ conn.req.len > 0 /\ wire.sock = << >>
  /\ QuitProcessed(wire) /\ Len(conn.inbuf) > 0

====
